---- MODULE Spec2Model ----
(***************************************************************************)
(* A model of the scheduling core of the yacs backend:                     *)
(*   - the seat-reservation endpoints (controllers/reservations_controller) *)
(*     as concurrent request handlers over one offering row and the         *)
(*     reservations table (specification SpecRes);                          *)
(*   - the heuristic planner optimize_pathway, greedy and load-balancing    *)
(*     (services/pathway_optimizer, specification SpecPlan);                *)
(*   - the exact planner optimize_pathway_exact (services/global_optimizer, *)
(*     specification SpecExact);                                            *)
(*   - the schedule scorer score_courses (services/score, specification     *)
(*     SpecScore);                                                          *)
(*   - the term successors and parse_days as pure functions                 *)
(*     (specifications SpecLabel and SpecDays).                             *)
(* Every specification leaves the variables of the others untouched.        *)
(***************************************************************************)
EXTENDS Integers, Sequences, FiniteSets, TLC

VARIABLES
    \* ---- reservations_controller: database rows
    capacity,       \* course_offerings.capacity of the offering: None or Some(n)
    enrolled,       \* course_offerings.enrolled of the offering
    reservations,   \* the reservations table: row id = index (autoincrement);
                    \* a row also records the hold_minutes it was requested
                    \* with and how many commits of it succeeded
    now,            \* the wall clock, datetime.utcnow()
    \* ---- reservations_controller: request handlers in flight
    pc,             \* per handler: where it stands
    call,           \* per handler: its arguments and the `now` it read on entry
    last,           \* the response a handler returned in the step just taken
    \* ---- history of the run (read by properties only)
    enrolled0,      \* enrolled before the first request
    race,           \* the commits racing for the last seat, and how each ended
    \* ---- the planners: what a call is given
    inp,            \* the request, and the catalog / preferences rows it reads
    offerings,      \* the course_offerings rows (enrolled moves with reserve_seats)
    \* ---- the planners: locals of the call in progress
    completed,      \* `completed`: the request's completed set, then what is placed
    remaining,      \* `remaining`: pathway courses not yet placed (greedy)
    scheduled,      \* `scheduled` (load balancing)
    sem_label,      \* `sem_label`: the term the loop stands at
    term_count,     \* `term_count`: iterations of the greedy loop
    term_idx,       \* `t`: index of the load-balancing loop
    plan,           \* `plan`: the term entries appended so far
    solution,       \* exact planner: the solver's status and the x set to 1
    ppc,            \* where the call stands: "greedy", "balance", "exact", "done"
    \* ---- services/score: the schedules a caller scores, and what came back
    score_req,      \* the course lists to score and the preferences passed
    score_res,      \* what each score_courses call so far returned or raised
    \* ---- the pure helpers: one argument and the values returned for it
    fn_arg,         \* the argument the helpers are applied to
    fn_ret          \* the values returned so far

resVars == <<capacity, enrolled, reservations, now, pc, call, last,
             enrolled0, race>>

planVars == <<inp, offerings, completed, remaining, scheduled, sem_label,
              term_count, term_idx, plan, solution, ppc>>

utilVars == <<score_req, score_res, fn_arg, fn_ret>>

vars == <<resVars, planVars, utilVars>>

\* A nullable column: None, or Some(v).
None == <<>>
Some(v) == <<v>>
IsNone(x) == x = <<>>
Val(x) == x[1]

\* No scorer call and no helper call in progress.
UtilIdle ==
    /\ score_req = <<>>
    /\ score_res = <<>>
    /\ fn_arg = <<>>
    /\ fn_ret = <<>>

\* No planner call in progress.
PlannerIdle ==
    /\ inp = <<>>
    /\ offerings = <<>>
    /\ completed = {}
    /\ remaining = {}
    /\ scheduled = {}
    /\ sem_label = <<>>
    /\ term_count = 0
    /\ term_idx = 0
    /\ plan = <<>>
    /\ solution = <<>>
    /\ ppc = "off"

----------------------------------------------------------------------------
(* Bounds of the reservation model *)

MaxCap == 1     \* capacities 0..MaxCap (and null)

\* Row ids of the reservations table (autoincrement from 1).
ReservationIds == {1, 2}

\* Clock values: of the runs with allow_overfull=false only, and of all runs.
Clock == 0..2
ClockShort == 0..1

\* hold_minutes a create request carries: 0 (falsy, so the default) and 1.
HoldChoices == {0, 1}

\* The concurrent request handlers.
Procs == {1, 2}

\* offering ids a request may name: "o1" is the offering row, "o9" matches no row.
OfferingIds == {"o1"}
RequestedOfferingIds == {"o1", "o9"}

\* ReservationCreate.hold_minutes default and the `or 15` of create_reservation
DefaultHoldMinutes == 15

----------------------------------------------------------------------------
(* reservations_controller.py *)

\* timedelta(minutes=req.hold_minutes or 15): 0 is falsy
HoldMinutes(h) == IF h = 0 THEN DefaultHoldMinutes ELSE h

RowIds == 1..Len(reservations)

\* Reservation.status == 'held' and Reservation.expires_at > now
ActiveHeld(t) ==
    {i \in RowIds : reservations[i].status = "held" /\ reservations[i].expires_at > t}

\* create, with the expires_at filter left out of the count
ActiveReservedCreateAnyExpiry(t) ==
    Cardinality({i \in RowIds : reservations[i].status = "held"})

\* create: the count of active held reservations of the offering
ActiveReservedCreate(t) == Cardinality(ActiveHeld(t))

\* commit, with the other holds not counted at all
ActiveReservedCommitNone(t, rid) == 0

\* commit, with the `Reservation.id != r.id` filter left out of the count
ActiveReservedCommitWithSelf(t, rid) == Cardinality(ActiveHeld(t))

\* commit: the same count with Reservation.id != r.id
ActiveReservedCommit(t, rid) == Cardinality(ActiveHeld(t) \ {rid})

\* create: `if available <= 0 and not allow_overfull`, under `capacity is not None`
NoSeatsCreateLoose(cap, available, allow_overfull) ==
    /\ ~IsNone(cap)
    /\ available < 0
    /\ ~allow_overfull

NoSeatsCreate(cap, available, allow_overfull) ==
    /\ ~IsNone(cap)
    /\ available <= 0
    /\ ~allow_overfull

\* commit: `if available <= 0 and not allow_overfull`, under `capacity is not None`
NoSeatsCommitLoose(cap, available, allow_overfull) ==
    /\ ~IsNone(cap)
    /\ available < 0
    /\ ~allow_overfull

NoSeatsCommit(cap, available, allow_overfull) ==
    /\ ~IsNone(cap)
    /\ available <= 0
    /\ ~allow_overfull

\* capacity - enrolled - active_reserved (read only when capacity is set)
Available(cap, enr, active) == IF IsNone(cap) THEN 0 ELSE Val(cap) - enr - active

\* commit: `r.expires_at and r.expires_at < now`
ExpiredAtCommit(r, t) == r.expires_at < t

\* commit_reservation's row lock, not taken
RowLockedNever(rid) == FALSE

\* SELECT ... FOR UPDATE on a reservation row waits while another transaction
\* holds the row: a commit between its row lock and its db.commit().
RowLocked(rid) == \E q \in Procs : pc[q] = "commit_body" /\ call[q].rid = rid

NoCall ==
    [op |-> "none", rid |-> 0, now |-> 0, overfull |-> FALSE, hold |-> 0,
     hold_until |-> 0]

\* No handler returned in the step just taken.
NoResponse == [op |-> "none", rid |-> 0, overfull |-> FALSE, result |-> "none"]

\* The response to `op` on row rid, called with allow_overfull = ovf.
Response(op, rid, ovf, result) ==
    [op |-> op, rid |-> rid, overfull |-> ovf, result |-> result]

\* Idle handlers are interchangeable workers: the next request goes to the
\* first idle one.
TakesRequest(p) ==
    /\ pc[p] = "idle"
    /\ \A q \in Procs : q < p => pc[q] # "idle"

InFlightCreates == Cardinality({q \in Procs : pc[q] = "create_body"})

\* The history variable `race`: a commit that begins while another handler's
\* commit of a different reservation is in flight, both reservations held and
\* active, both calls with allow_overfull=false, and one seat left.
RacesWith(p, rid, ovf) ==
    {q \in Procs \ {p} :
        /\ pc[q] \in {"commit_lock", "commit_body"}
        /\ call[q].rid # rid
        /\ {rid, call[q].rid} \subseteq ActiveHeld(now)
        /\ ~ovf
        /\ ~call[q].overfull
        /\ ~IsNone(capacity)
        /\ Val(capacity) - enrolled = 1}

NoRace == <<>>

\* `race` after a step of handler p that leaves p's call at `outcome`; a step
\* of a handler outside the race ends the bookkeeping.
RaceAfterStep(p, outcome) ==
    IF p \in DOMAIN race THEN [race EXCEPT ![p] = outcome] ELSE NoRace

\* create_reservation, entry: now = utcnow(); hold_until = now + hold. A
\* request that names no offering row ends with 404 and touches nothing.
CreateBegin(p, oid, hold, ovf) ==
    /\ TakesRequest(p)
    /\ race' = NoRace
    /\ IF oid \notin OfferingIds
       THEN /\ last' = Response("create", 0, ovf, "NotFound")
            /\ UNCHANGED <<pc, call>>
       ELSE /\ Len(reservations) + InFlightCreates < Cardinality(ReservationIds)
            /\ pc' = [pc EXCEPT ![p] = "create_body"]
            /\ call' = [call EXCEPT ![p] =
                          [op |-> "create", rid |-> 0, now |-> now,
                           overfull |-> ovf, hold |-> hold,
                           hold_until |-> now + HoldMinutes(hold)]]
            /\ last' = NoResponse
    /\ UNCHANGED <<capacity, enrolled, reservations, now, enrolled0>>
    /\ UNCHANGED <<planVars, utilVars>>

\* create_reservation, from the locking read of the offering to db.commit():
\* one transaction that holds the offering's row lock throughout.
CreateFinish(p) ==
    /\ pc[p] = "create_body"
    /\ pc' = [pc EXCEPT ![p] = "idle"]
    /\ call' = [call EXCEPT ![p] = NoCall]
    /\ race' = RaceAfterStep(p, "none")
    /\ LET available == Available(capacity, enrolled, ActiveReservedCreate(call[p].now))
       IN  IF NoSeatsCreate(capacity, available, call[p].overfull)
           THEN /\ last' = Response("create", 0, call[p].overfull, "NoSeats")
                /\ UNCHANGED reservations
           ELSE /\ last' = Response("create", Len(reservations) + 1,
                                 call[p].overfull, "ok")
                /\ reservations' = Append(reservations,
                       [status |-> "held", created_at |-> call[p].now,
                        expires_at |-> call[p].hold_until, seats |-> 1,
                        hold_minutes |-> call[p].hold, commits |-> 0])
    /\ UNCHANGED <<capacity, enrolled, now, enrolled0>>
    /\ UNCHANGED <<planVars, utilVars>>

\* commit_reservation, entry: now = utcnow()
CommitBegin(p, rid, ovf) ==
    /\ TakesRequest(p)
    /\ pc' = [pc EXCEPT ![p] = "commit_lock"]
    /\ call' = [call EXCEPT ![p] =
                  [op |-> "commit", rid |-> rid, now |-> now,
                   overfull |-> ovf, hold |-> 0, hold_until |-> 0]]
    /\ last' = NoResponse
    /\ race' = [q \in (IF RacesWith(p, rid, ovf) # {}
                       THEN {p} \cup RacesWith(p, rid, ovf) ELSE {}) |-> "running"]
    /\ UNCHANGED <<capacity, enrolled, reservations, now, enrolled0>>
    /\ UNCHANGED <<planVars, utilVars>>

\* commit_reservation: the locking read of the reservation row, the status
\* check and the expiry check (which writes 'expired' and commits).
CommitLock(p) ==
    /\ pc[p] = "commit_lock"
    /\ LET rid == call[p].rid IN
       IF rid \notin RowIds
       THEN /\ pc' = [pc EXCEPT ![p] = "idle"]
            /\ call' = [call EXCEPT ![p] = NoCall]
            /\ last' = Response("commit", rid, call[p].overfull, "NotFound")
            /\ race' = RaceAfterStep(p, "NotFound")
            /\ UNCHANGED reservations
       ELSE /\ ~RowLocked(rid)
            /\ IF reservations[rid].status # "held"
               THEN /\ pc' = [pc EXCEPT ![p] = "idle"]
                    /\ call' = [call EXCEPT ![p] = NoCall]
                    /\ last' = Response("commit", rid, call[p].overfull, "NotHeld")
                    /\ race' = RaceAfterStep(p, "NotHeld")
                    /\ UNCHANGED reservations
               ELSE IF ExpiredAtCommit(reservations[rid], call[p].now)
               THEN /\ pc' = [pc EXCEPT ![p] = "idle"]
                    /\ call' = [call EXCEPT ![p] = NoCall]
                    /\ last' = Response("commit", rid, call[p].overfull, "Expired")
                    /\ race' = RaceAfterStep(p, "Expired")
                    /\ reservations' = [reservations EXCEPT ![rid].status = "expired"]
               ELSE /\ pc' = [pc EXCEPT ![p] = "commit_body"]
                    /\ last' = NoResponse
                    /\ race' = RaceAfterStep(p, "running")
                    /\ UNCHANGED <<call, reservations>>
    /\ UNCHANGED <<capacity, enrolled, now, enrolled0>>
    /\ UNCHANGED <<planVars, utilVars>>

\* commit_reservation, from the locking read of the offering to db.commit():
\* holds the reservation's and the offering's row locks throughout.
CommitFinish(p) ==
    /\ pc[p] = "commit_body"
    /\ pc' = [pc EXCEPT ![p] = "idle"]
    /\ call' = [call EXCEPT ![p] = NoCall]
    /\ LET rid == call[p].rid
           available == Available(capacity, enrolled,
                                  ActiveReservedCommit(call[p].now, rid))
       IN  IF NoSeatsCommit(capacity, available, call[p].overfull)
           THEN /\ last' = Response("commit", rid, call[p].overfull, "NoSeats")
                /\ race' = RaceAfterStep(p, "NoSeats")
                /\ UNCHANGED <<enrolled, reservations>>
           ELSE /\ last' = Response("commit", rid, call[p].overfull, "ok")
                /\ race' = RaceAfterStep(p, "ok")
                /\ enrolled' = enrolled + reservations[rid].seats
                /\ reservations' = [reservations EXCEPT ![rid].status = "committed",
                                                       ![rid].commits = @ + 1]
    /\ UNCHANGED <<capacity, now, enrolled0>>
    /\ UNCHANGED <<planVars, utilVars>>

\* release_reservation's status check, never refusing
CannotReleaseNever(status) == FALSE

\* release_reservation: `if r.status == 'committed'` (400)
CannotRelease(status) == status = "committed"

\* release_reservation: the plain read of the row and the status check
ReleaseBegin(p, rid) ==
    /\ TakesRequest(p)
    /\ race' = NoRace
    /\ IF rid \notin RowIds
       THEN /\ last' = Response("release", rid, FALSE, "NotFound")
            /\ UNCHANGED <<pc, call>>
       ELSE IF CannotRelease(reservations[rid].status)
       THEN /\ last' = Response("release", rid, FALSE, "CannotRelease")
            /\ UNCHANGED <<pc, call>>
       ELSE /\ last' = NoResponse
            /\ pc' = [pc EXCEPT ![p] = "release_write"]
            /\ call' = [call EXCEPT ![p] =
                          [op |-> "release", rid |-> rid, now |-> 0,
                           overfull |-> FALSE, hold |-> 0,
                           hold_until |-> 0]]
    /\ UNCHANGED <<capacity, enrolled, reservations, now, enrolled0>>
    /\ UNCHANGED <<planVars, utilVars>>

\* release_reservation: r.status = 'released'; db.commit(). The UPDATE is by
\* primary key and waits for a transaction that holds the row.
ReleaseWrite(p) ==
    /\ pc[p] = "release_write"
    /\ ~RowLocked(call[p].rid)
    /\ pc' = [pc EXCEPT ![p] = "idle"]
    /\ call' = [call EXCEPT ![p] = NoCall]
    /\ last' = Response("release", call[p].rid, FALSE, "ok")
    /\ race' = RaceAfterStep(p, "none")
    /\ reservations' = [reservations EXCEPT ![call[p].rid].status = "released"]
    /\ UNCHANGED <<capacity, enrolled, now, enrolled0>>
    /\ UNCHANGED <<planVars, utilVars>>

\* the wall clock advances, within Times
Tick(Times) ==
    /\ now + 1 \in Times
    /\ now' = now + 1
    /\ last' = NoResponse
    /\ UNCHANGED <<capacity, enrolled, reservations, pc, call,
                   enrolled0, race>>
    /\ UNCHANGED <<planVars, utilVars>>

\* An offering row (0 <= enrolled <= capacity when capacity is set), an empty
\* reservations table, no request in flight.
InitRes ==
    /\ capacity \in {None} \cup {Some(c) : c \in 0..MaxCap}
    /\ enrolled \in (IF IsNone(capacity) THEN {0} ELSE 0..Val(capacity))
    /\ enrolled0 = enrolled
    /\ reservations = <<>>
    /\ now = 0
    /\ pc = [p \in Procs |-> "idle"]
    /\ call = [p \in Procs |-> NoCall]
    /\ last = NoResponse
    /\ race = NoRace
    /\ PlannerIdle
    /\ UtilIdle

\* The requests drawn with allow_overfull in Overfull, the clock within Times.
NextResWith(Overfull, Times) ==
    \/ \E p \in Procs, oid \in RequestedOfferingIds, h \in HoldChoices, ovf \in Overfull :
          CreateBegin(p, oid, h, ovf)
    \/ \E p \in Procs : CreateFinish(p)
    \/ \E p \in Procs, rid \in ReservationIds, ovf \in Overfull : CommitBegin(p, rid, ovf)
    \/ \E p \in Procs : CommitLock(p)
    \/ \E p \in Procs : CommitFinish(p)
    \/ \E p \in Procs, rid \in ReservationIds : ReleaseBegin(p, rid)
    \/ \E p \in Procs : ReleaseWrite(p)
    \/ Tick(Times)

NextRes == NextResWith(BOOLEAN, ClockShort)

NextResStrict == NextResWith({FALSE}, Clock)

\* Every request, allow_overfull true or false.
SpecRes == InitRes /\ [][NextRes]_vars

\* The runs in which every create and commit has allow_overfull=false.
SpecResStrict == InitRes /\ [][NextResStrict]_vars

----------------------------------------------------------------------------
(* Properties of the reservation endpoints *)

\* A handler p whose create returns in this step.
CreateReturns(p) == pc[p] = "create_body" /\ pc'[p] = "idle"

\* A handler p whose commit returns from its capacity check in this step.
CommitReturns(p) == pc[p] = "commit_body" /\ pc'[p] = "idle"

Committed == {i \in RowIds : reservations[i].status = "committed"}

RaceOver == race # NoRace /\ \A p \in DOMAIN race : race[p] # "running"

\* C3: with capacity c, 0 <= enrolled <= c at the start and every create and
\* commit called with allow_overfull=false, enrolled plus the number of held
\* reservations with expires_at > now never exceeds c.
C3_SeatsNeverOversold ==
    ~IsNone(capacity) =>
        enrolled + Cardinality({i \in RowIds : /\ reservations[i].status = "held"
                                               /\ reservations[i].expires_at > now})
            <= Val(capacity)

\* C3 witness: the offering is exactly full with a seat committed by a request
\* and the clock advanced, right after a create was refused.
C3_FullAfterCommit ==
    /\ ~IsNone(capacity)
    /\ enrolled > enrolled0
    /\ enrolled = Val(capacity)
    /\ now > 0
    /\ last.op = "create"
    /\ last.result = "NoSeats"

\* C4 as stated: when two held, unexpired reservations of one offering are
\* committed concurrently with allow_overfull=false and one seat is left,
\* exactly one commit succeeds and the other fails with NoSeats.
C4_ExactlyOneCommitWins ==
    RaceOver =>
        \E p \in DOMAIN race :
            /\ race[p] = "ok"
            /\ \A q \in DOMAIN race \ {p} : race[q] = "NoSeats"

\* C4 amended: in that race neither commit succeeds; each counts the other's
\* active hold, both fail with NoSeats and enrolled stays one below capacity.
C4_BothCommitsRefused ==
    RaceOver =>
        /\ \A p \in DOMAIN race : race[p] = "NoSeats"
        /\ Val(capacity) - enrolled = 1

\* C4 witness: a race for the last seat has run to its end.
C4_RaceFinished == RaceOver /\ Cardinality(DOMAIN race) = 2

\* C5: a reservation whose commit succeeded stays committed, so enrolled minus
\* its initial value is the sum of seats of the committed reservations.
C5_EnrolledCountsCommitted ==
    enrolled - enrolled0 = Cardinality(Committed)

\* C8: create fails with NoSeats exactly when capacity is set, capacity -
\* enrolled - (held reservations with expires_at > the call's now) <= 0 and
\* allow_overfull is false; a failed create changes neither table; any other
\* create appends one held reservation and leaves enrolled alone.
C8_CreateNoSeatsExactly ==
    [][\A p \in Procs : CreateReturns(p) =>
        LET held == {i \in RowIds : /\ reservations[i].status = "held"
                                    /\ reservations[i].expires_at > call[p].now}
            full == /\ capacity # None
                    /\ Val(capacity) - enrolled - Cardinality(held) <= 0
                    /\ ~call[p].overfull
        IN  /\ (last'.result = "NoSeats") <=> full
            /\ enrolled' = enrolled
            /\ full => reservations' = reservations
            /\ ~full => /\ last'.result = "ok"
                        /\ Len(reservations') = Len(reservations) + 1
                        /\ SubSeq(reservations', 1, Len(reservations)) = reservations
                        /\ reservations'[Len(reservations')].status = "held"
      ]_vars

\* C8 witness: with capacity 1 and nothing enrolled a create was refused while
\* another hold was active.
C8_SecondCreateRefused ==
    /\ capacity = Some(1)
    /\ enrolled = 0
    /\ last.op = "create"
    /\ last.result = "NoSeats"
    /\ ~last.overfull
    /\ \E i \in RowIds : reservations[i].status = "held" /\ reservations[i].expires_at > now

\* C9: when a commit called with allow_overfull=false succeeds on an offering
\* with capacity set, just before it enrolled + (other held reservations with
\* expires_at > now) < capacity, and just after it enrolled <= capacity.
C9_CommitHadFreeSeat ==
    [][\A p \in Procs :
        (/\ CommitReturns(p)
         /\ ~call[p].overfull
         /\ capacity # None
         /\ last'.result = "ok") =>
            /\ enrolled + Cardinality({i \in RowIds \ {call[p].rid} :
                                          /\ reservations[i].status = "held"
                                          /\ reservations[i].expires_at > now})
                 < Val(capacity)
            /\ enrolled' <= Val(capacity)
      ]_vars

\* C9 witness: a commit without allow_overfull has just taken the last seat.
C9_LastSeatCommitted ==
    /\ last.op = "commit"
    /\ last.result = "ok"
    /\ ~last.overfull
    /\ capacity # None
    /\ enrolled = Val(capacity)
    /\ enrolled > enrolled0

\* The capacity check of a commit that returns in this step, for a reservation
\* that is held and whose hold has not lapsed.
CommitOfActiveHold(p) ==
    /\ CommitReturns(p)
    /\ ~call[p].overfull
    /\ capacity # None
    /\ reservations[call[p].rid].expires_at > now

\* available, with the other active held reservations counted at the call's now
OthersAvailable(p) ==
    Val(capacity) - enrolled
        - Cardinality({i \in RowIds \ {call[p].rid} :
                          /\ reservations[i].status = "held"
                          /\ reservations[i].expires_at > call[p].now})

\* C10 as stated: such a commit fails with NoSeats only when available < 0;
\* with available >= 0 it succeeds, adds seats to enrolled and sets committed.
C10_CommitFailsOnlyBelowZero ==
    [][\A p \in Procs : CommitOfActiveHold(p) =>
        /\ last'.result = "NoSeats" => OthersAvailable(p) < 0
        /\ OthersAvailable(p) >= 0 =>
              /\ last'.result = "ok"
              /\ enrolled' = enrolled + reservations[call[p].rid].seats
              /\ reservations'[call[p].rid].status = "committed"
      ]_vars

\* C10 amended: such a commit fails with NoSeats exactly when available <= 0
\* and then changes nothing; with available >= 1 it succeeds, adds seats to
\* enrolled and sets the status committed.
C10_CommitNeedsFreeSeat ==
    [][\A p \in Procs : CommitOfActiveHold(p) =>
        /\ (last'.result = "NoSeats") <=> (OthersAvailable(p) <= 0)
        /\ OthersAvailable(p) <= 0 =>
              /\ enrolled' = enrolled
              /\ reservations' = reservations
        /\ OthersAvailable(p) >= 1 =>
              /\ last'.result = "ok"
              /\ enrolled' = enrolled + reservations[call[p].rid].seats
              /\ reservations'[call[p].rid].status = "committed"
      ]_vars

\* C10 witness: a commit of an active hold was refused with NoSeats while
\* enrolled + the other active holds was exactly the capacity.
C10_RefusedAtZero ==
    /\ last.op = "commit"
    /\ last.result = "NoSeats"
    /\ ~last.overfull
    /\ capacity # None
    /\ last.rid \in RowIds
    /\ reservations[last.rid].status = "held"
    /\ reservations[last.rid].expires_at > now
    /\ Val(capacity) - enrolled
         - Cardinality({i \in RowIds \ {last.rid} :
                           /\ reservations[i].status = "held"
                           /\ reservations[i].expires_at > now}) = 0

\* A handler leaves commit_reservation's locking read of the row.
CommitReadsRow(p) == pc[p] = "commit_lock" /\ pc'[p] # "commit_lock"

\* C11: a commit on a held reservation with expires_at <= now, the boundary
\* expires_at = now included, sets the status to expired, fails with Expired
\* and leaves enrolled unchanged.
C11_CommitAtOrPastExpiryExpires ==
    [][\A p \in Procs :
         (/\ CommitReadsRow(p)
          /\ call[p].rid \in RowIds
          /\ reservations[call[p].rid].status = "held"
          /\ reservations[call[p].rid].expires_at <= call[p].now)
         => /\ reservations'[call[p].rid].status = "expired"
            /\ last' = Response("commit", call[p].rid, call[p].overfull, "Expired")
            /\ enrolled' = enrolled]_vars

RECURSIVE SumCommits(_)
SumCommits(i) ==
    IF i = 0 THEN 0
    ELSE reservations[i].commits * reservations[i].seats + SumCommits(i - 1)

\* C12: under every interleaving of commit calls on one reservation at most
\* one of them succeeds, enrolled grows by the reservation's seats at most
\* once, and a commit that reads the row after a commit of it succeeded fails
\* because the status is no longer held.
C12_CommitSucceedsAtMostOnce ==
    /\ [](/\ \A rid \in RowIds : reservations[rid].commits <= 1
          /\ enrolled - enrolled0 = SumCommits(Len(reservations)))
    /\ [][\A p \in Procs :
            (/\ CommitReadsRow(p)
             /\ call[p].rid \in RowIds
             /\ reservations[call[p].rid].commits >= 1)
            => /\ last' = Response("commit", call[p].rid, call[p].overfull,
                                   "NotHeld")
               /\ UNCHANGED <<reservations, enrolled>>]_vars

\* C12 witness: a commit of a reservation has just succeeded while another
\* commit call on the same reservation waits for the row.
C12_CommitWonWhileOtherWaits ==
    /\ last.op = "commit"
    /\ last.result = "ok"
    /\ \E q \in Procs : pc[q] = "commit_lock" /\ call[q].rid = last.rid

C21_ZeroHoldExpiresAtOnce ==
    /\ [](\A rid \in RowIds :
            reservations[rid].hold_minutes = 0 =>
                reservations[rid].expires_at = reservations[rid].created_at)
    /\ [][\A p \in Procs :
            (/\ CommitReadsRow(p)
             /\ call[p].rid \in RowIds
             /\ reservations[call[p].rid].status = "held"
             /\ reservations[call[p].rid].hold_minutes = 0
             /\ call[p].now = reservations[call[p].rid].created_at)
            => /\ last'.result = "Expired"
               /\ reservations'[call[p].rid].status = "expired"
               /\ enrolled' = enrolled]_vars

----------------------------------------------------------------------------
(* pathway_optimizer.py: labels, day strings, times *)

\* The pathway's courses, and the catalog (which holds one course more).
PathwayCourses == {"A", "B", "C"}
CatalogCourses == PathwayCourses \cup {"X"}

\* code_to_course: the pathway's courses in the order the query returns them
CourseOrder == <<"A", "B", "C">>

TermOrder == <<"Fall", "Spring", "Summer">>

\* a successor that stays in the term it is given
same_semester_label(label) == label

\* _next_semester_label on a label "Term YYYY", held as [term, year]
next_semester_label(label) ==
    LET term == IF label.term \in {"Fall", "Spring", "Summer"}
                THEN label.term ELSE TermOrder[1]
        idx == CHOOSE i \in 1..3 : TermOrder[i] = term
        next_idx == (idx % 3) + 1
        next_term == TermOrder[next_idx]
        first_year == IF next_term = "Fall" /\ next_idx = 1 /\ term = "Summer"
                      THEN label.year + 1 ELSE label.year
        fall_spring == IF term = "Fall" /\ next_term = "Spring"
                       THEN label.year + 1 ELSE first_year
        spring_summer == IF term = "Spring" /\ next_term = "Summer"
                         THEN label.year ELSE fall_spring
        next_year == IF term = "Summer" /\ next_term = "Fall"
                     THEN label.year ELSE spring_summer
    IN  [term |-> next_term, year |-> next_year]

\* A string is the sequence of its characters.
Whitespace == {" "}
DayLetters == {"M", "T", "W", "R", "F", "S", "U"}

\* str.upper(), on the characters the day strings are made of
Upper(ch) ==
    CASE ch = "m" -> "M"
      [] ch = "t" -> "T"
      [] ch = "w" -> "W"
      [] ch = "r" -> "R"
      [] ch = "f" -> "F"
      [] OTHER -> ch

RECURSIVE LStrip(_)
LStrip(s) == IF s # <<>> /\ Head(s) \in Whitespace THEN LStrip(Tail(s)) ELSE s

RECURSIVE RStrip(_)
RStrip(s) ==
    IF s # <<>> /\ s[Len(s)] \in Whitespace
    THEN RStrip(SubSeq(s, 1, Len(s) - 1)) ELSE s

\* str.strip()
Strip(s) == RStrip(LStrip(s))

\* s.replace('TR', 'R'): every occurrence, left to right
RECURSIVE ReplaceTR(_)
ReplaceTR(s) ==
    IF s = <<>> THEN <<>>
    ELSE IF Len(s) >= 2 /\ s[1] = "T" /\ s[2] = "R"
    THEN <<"R">> \o ReplaceTR(SubSeq(s, 3, Len(s)))
    ELSE <<s[1]>> \o ReplaceTR(Tail(s))

\* parse_days (None and '' are both falsy)
parse_days(days) ==
    IF days = <<>> THEN {}
    ELSE LET s == [i \in 1..Len(Strip(days)) |-> Upper(Strip(days)[i])]
             r == ReplaceTR(s)
         IN  {r[i] : i \in 1..Len(r)} \cap DayLetters

\* parse_time on a time string "H:MM", "H:MM AM" or "H:MM PM", held as
\* Some([hour, minute, meridian]) with meridian "" for the 24-hour form
parse_time(tm) ==
    IF IsNone(tm) THEN None
    ELSE LET hm == Val(tm)
             hour == IF hm.meridian = "PM" /\ hm.hour # 12 THEN hm.hour + 12
                     ELSE IF hm.meridian = "AM" /\ hm.hour = 12 THEN 0
                     ELSE hm.hour
         IN  Some(hour * 60 + hm.minute)

\* times_conflict(a, b) on two offering rows
times_conflict(a, b) ==
    LET days_a == parse_days(a.days)
        days_b == parse_days(b.days)
        a_s == parse_time(a.start_time)
        a_e == parse_time(a.end_time)
        b_s == parse_time(b.start_time)
        b_e == parse_time(b.end_time)
    IN  IF days_a = {} \/ days_b = {} THEN FALSE
        ELSE IF days_a \cap days_b = {} THEN FALSE
        ELSE IF IsNone(a_s) \/ IsNone(a_e) \/ IsNone(b_s) \/ IsNone(b_e) THEN FALSE
        ELSE ~(Val(a_e) <= Val(b_s) \/ Val(b_e) <= Val(a_s))

----------------------------------------------------------------------------
(* pathway_optimizer.py: optimize_pathway *)

\* Credits are counted in tenths, so that the 0.1 instructor bonus is whole.
Tenths == 10
InstructorBonus == 1

\* What the call reads of the preferences row (None: no user_id, or no row).
pref_max_credits ==
    IF IsNone(inp.preferences) THEN None
    ELSE IF Val(inp.preferences).max_credits_per_term = 0 THEN None
    ELSE Some(Val(inp.preferences).max_credits_per_term)

pref_unavailable_days ==
    IF IsNone(inp.preferences) THEN {}
    ELSE parse_days(Val(inp.preferences).unavailable_days)

pref_avoid_mornings ==
    ~IsNone(inp.preferences) /\ Val(inp.preferences).avoid_mornings

pref_avoid_evenings ==
    ~IsNone(inp.preferences) /\ Val(inp.preferences).avoid_evenings

pref_instructors ==
    IF IsNone(inp.preferences) THEN {}
    ELSE Val(inp.preferences).preferred_instructors

\* eff_max_credits = pref_max_credits or max_credits_per_semester
eff_max_credits ==
    IF IsNone(pref_max_credits) THEN inp.max_credits_per_semester
    ELSE Val(pref_max_credits)

\* has_space(off)
has_space(off) ==
    IF IsNone(off.capacity) THEN 1
    ELSE IF IsNone(off.enrolled) THEN 1
    ELSE IF Val(off.enrolled) < Val(off.capacity) THEN 1 ELSE 0

\* instructor_score(off)
instructor_score(off) ==
    IF pref_instructors = {} THEN 0
    ELSE IF off.instructor \in pref_instructors THEN 1 ELSE 0

\* The sort key with the instructor left out.
OfferingKeySpaceOnly(off) == 2 * has_space(off)

\* The sort key (has_space, instructor_score), compared as a pair.
OfferingKey(off) == 2 * has_space(off) + instructor_score(off)

\* offered_this_term(code, sem_label): the id of the offering chosen, 0 for
\* None. Rows of the exact year come first, then the recurring ones; the
\* sort is stable, so the first row with the largest key is on top.
offered_this_term(code, label) ==
    LET ids == 1..Len(offerings)
        exact == {i \in ids : /\ offerings[i].course = code
                              /\ offerings[i].term = label.term
                              /\ offerings[i].year = Some(label.year)}
        recurring == {i \in ids : /\ offerings[i].course = code
                                  /\ offerings[i].term = label.term
                                  /\ IsNone(offerings[i].year)}
        candidates == exact \cup recurring
        Before(i, j) == \/ i \in exact /\ j \in recurring
                        \/ (i \in exact <=> j \in exact) /\ i < j
        top == CHOOSE i \in candidates :
                 \A j \in candidates \ {i} :
                    \/ OfferingKey(offerings[i]) > OfferingKey(offerings[j])
                    \/ /\ OfferingKey(offerings[i]) = OfferingKey(offerings[j])
                       /\ Before(i, j)
    IN  IF candidates = {} THEN 0
        ELSE IF has_space(offerings[top]) = 1 \/ inp.allow_overfull THEN top
        ELSE 0

\* is_full of an offering row
is_full(off) ==
    /\ ~IsNone(off.capacity)
    /\ ~IsNone(off.enrolled)
    /\ Val(off.enrolled) >= Val(off.capacity)

\* The tests a (code, offering) pair passes to become a candidate.
PassesPreferences(off) ==
    LET st == parse_time(off.start_time)
    IN  /\ pref_unavailable_days = {}
           \/ parse_days(off.days) \cap pref_unavailable_days = {}
        /\ ~(pref_avoid_mornings /\ ~IsNone(st) /\ Val(st) < 10 * 60)
        /\ ~(pref_avoid_evenings /\ ~IsNone(st) /\ Val(st) >= 18 * 60)
        /\ ~(is_full(off) /\ ~inp.allow_overfull)

\* (c.credits or 0) + bonus, in tenths
WeightedCredit(code, off) ==
    inp.credits[code] * Tenths
      + (IF pref_instructors # {} /\ off.instructor \in pref_instructors
         THEN InstructorBonus ELSE 0)

\* candidates: for the eligible codes in the order they are iterated, the
\* tuples (code, offering, credits) that pass
CandidatesOf(order, label) ==
    LET Offered(code) == offered_this_term(code, label) # 0
        offered_now == SelectSeq(order, Offered)
        Passes(code) == PassesPreferences(offerings[offered_this_term(code, label)])
        kept == SelectSeq(offered_now, Passes)
    IN  [i \in 1..Len(kept) |->
           [code |-> kept[i],
            off |-> offered_this_term(kept[i], label),
            cred |-> WeightedCredit(kept[i],
                        offerings[offered_this_term(kept[i], label)])]]

\* candidates.sort(key=credits, reverse=True): stable
InsertByCredit(s, x) ==
    LET k == Cardinality({i \in 1..Len(s) : s[i].cred >= x.cred})
    IN  SubSeq(s, 1, k) \o <<x>> \o SubSeq(s, k + 1, Len(s))

RECURSIVE SortByCredit(_, _)
SortByCredit(s, acc) ==
    IF s = <<>> THEN acc ELSE SortByCredit(Tail(s), InsertByCredit(acc, Head(s)))

\* the conflict test of dfs: off_j against every offering of cur
ConflictsWithAny(cand, cur) ==
    \E k \in 1..Len(cur) :
       times_conflict(offerings[cand.off], offerings[cur[k].off])

\* best_set / best_credit before the search
NoBest == [set |-> <<>>, credit |-> 0]

\* dfs(idx, cur, cur_credit) of the greedy loop, with the nonlocal best_set
\* and best_credit threaded through as `best`; candidates[idx..] are still to
\* be tried (indices from 1). dfs_loop is its `for j in range(idx, n)`.
RECURSIVE dfs(_, _, _, _, _, _)
RECURSIVE dfs_loop(_, _, _, _, _, _)
dfs(cands, idx, cur, cur_credit, best, cap) ==
    LET best1 == IF cur_credit > best.credit
                 THEN [set |-> cur, credit |-> cur_credit] ELSE best
    IN  IF idx > Len(cands) THEN best1
        ELSE dfs_loop(cands, idx, cur, cur_credit, best1, cap)

dfs_loop(cands, j, cur, cur_credit, best, cap) ==
    IF j > Len(cands) THEN best
    ELSE IF cur_credit + cands[j].cred > cap
    THEN dfs_loop(cands, j + 1, cur, cur_credit, best, cap)
    ELSE IF ConflictsWithAny(cands[j], cur)
    THEN dfs_loop(cands, j + 1, cur, cur_credit, best, cap)
    ELSE dfs_loop(cands, j + 1, cur, cur_credit,
                  dfs(cands, j + 1, Append(cur, cands[j]),
                      cur_credit + cands[j].cred, best, cap),
                  cap)

\* dfs of the load-balancing loop: a set becomes the best only within the target
RECURSIVE dfs_balance(_, _, _, _, _, _)
RECURSIVE dfs_balance_loop(_, _, _, _, _, _)
dfs_balance(cands, idx, cur, cur_credit, best, target) ==
    LET best1 == IF cur_credit > best.credit /\ cur_credit <= target
                 THEN [set |-> cur, credit |-> cur_credit] ELSE best
    IN  IF idx > Len(cands) THEN best1
        ELSE dfs_balance_loop(cands, idx, cur, cur_credit, best1, target)

dfs_balance_loop(cands, j, cur, cur_credit, best, target) ==
    IF j > Len(cands) THEN best
    ELSE IF cur_credit + cands[j].cred > target
    THEN dfs_balance_loop(cands, j + 1, cur, cur_credit, best, target)
    ELSE IF ConflictsWithAny(cands[j], cur)
    THEN dfs_balance_loop(cands, j + 1, cur, cur_credit, best, target)
    ELSE dfs_balance_loop(cands, j + 1, cur, cur_credit,
                          dfs_balance(cands, j + 1, Append(cur, cands[j]),
                                      cur_credit + cands[j].cred, best, target),
                          target)

\* offering_info['status']
OfferingStatus(off) ==
    IF IsNone(off.capacity) \/ IsNone(off.enrolled)
       \/ Val(off.enrolled) < Val(off.capacity)
    THEN "confirmed" ELSE "full"

\* The selected tuples that make it into semester_courses.
Listed(selected) ==
    LET Kept(cand) == ~(OfferingStatus(offerings[cand.off]) = "full"
                        /\ ~inp.allow_overfull)
    IN  SelectSeq(selected, Kept)

\* semester_courses: one entry per selected tuple that is listed, with the
\* offering as it is read before a seat is reserved
SemesterCourses(selected) ==
    LET kept == Listed(selected)
    IN  [i \in 1..Len(kept) |->
           [course_code |-> kept[i].code,
            credits |-> inp.credits[kept[i].code],
            offering |-> [id |-> kept[i].off,
                          days |-> offerings[kept[i].off].days,
                          start_time |-> offerings[kept[i].off].start_time,
                          end_time |-> offerings[kept[i].off].end_time,
                          capacity |-> offerings[kept[i].off].capacity,
                          enrolled |-> offerings[kept[i].off].enrolled,
                          status |-> OfferingStatus(offerings[kept[i].off])]]]

RECURSIVE SumCredits(_)
SumCredits(courses) ==
    IF courses = <<>> THEN 0
    ELSE Head(courses).credits + SumCredits(Tail(courses))

CodesOf(courses) == {courses[i].course_code : i \in 1..Len(courses)}

\* offering.enrolled = offering.enrolled + 1 for every listed offering, when
\* reserve_seats is set and enrolled is not NULL
AfterReserve(courses) ==
    LET ids == {courses[i].offering.id : i \in 1..Len(courses)}
    IN  [i \in 1..Len(offerings) |->
           IF inp.reserve_seats /\ i \in ids /\ ~IsNone(offerings[i].enrolled)
           THEN [offerings[i] EXCEPT !.enrolled = Some(Val(offerings[i].enrolled) + 1)]
           ELSE offerings[i]]

\* The orders in which a set of codes can be iterated.
OrdersOf(S) ==
    {o \in [1..Cardinality(S) -> S] : \A c \in S : \E i \in DOMAIN o : o[i] = c}

\* eligible of the greedy loop with the prerequisite test left out
EligibleGreedyNoPrereqs == remaining

\* eligible of the greedy loop, as a set: the iteration order of `remaining`
\* (a set of strings) is not fixed
EligibleGreedy == {code \in remaining : inp.prereq_map[code] \subseteq completed}

\* One iteration of `while remaining and term_count < max_terms`.
GreedyTerm ==
    /\ ppc = "greedy"
    /\ remaining # {}
    /\ term_count < inp.max_terms
    /\ term_count' = term_count + 1
    /\ \E eligible \in OrdersOf(EligibleGreedy) :
          LET candidates == SortByCredit(CandidatesOf(eligible, sem_label), <<>>)
              selected == IF candidates = <<>> THEN <<>>
                          ELSE dfs(candidates, 1, <<>>, 0, NoBest,
                                   eff_max_credits * Tenths).set
              semester_courses == SemesterCourses(selected)
              credits == SumCredits(semester_courses)
          IN  IF semester_courses = <<>>
              THEN /\ IF eligible = <<>>
                      THEN ppc' = "done" /\ UNCHANGED sem_label
                      ELSE ppc' = ppc /\ sem_label' = next_semester_label(sem_label)
                   /\ UNCHANGED <<plan, completed, remaining, offerings>>
              ELSE /\ plan' = Append(plan, [semester |-> sem_label,
                                            courses |-> semester_courses,
                                            total_credits |-> credits])
                   /\ completed' = completed \cup CodesOf(semester_courses)
                   /\ remaining' = remaining \ CodesOf(semester_courses)
                   /\ offerings' = AfterReserve(semester_courses)
                   /\ sem_label' = next_semester_label(sem_label)
                   /\ ppc' = ppc
    /\ UNCHANGED <<inp, scheduled, term_idx, solution>>
    /\ UNCHANGED <<resVars, utilVars>>

\* The greedy loop's condition fails: return plan.
GreedyReturn ==
    /\ ppc = "greedy"
    /\ ~(remaining # {} /\ term_count < inp.max_terms)
    /\ ppc' = "done"
    /\ UNCHANGED <<inp, offerings, completed, remaining, scheduled, sem_label,
                   term_count, term_idx, plan, solution>>
    /\ UNCHANGED <<resVars, utilVars>>

RECURSIVE SumOver(_, _)
SumOver(S, f) ==
    IF S = {} THEN 0
    ELSE LET x == CHOOSE y \in S : TRUE IN f[x] + SumOver(S \ {x}, f)

\* total_credits of the load-balancing mode
total_credits == SumOver(PathwayCourses \ inp.completed, inp.credits)

Max(a, b) == IF a >= b THEN a ELSE b
Min(a, b) == IF a <= b THEN a ELSE b

\* target_credits
target_credits ==
    IF inp.max_terms > 0
    THEN Min(eff_max_credits,
             Max(1, (total_credits + inp.max_terms - 1) \div inp.max_terms))
    ELSE eff_max_credits

\* eligible of the load-balancing loop with the test on scheduled left out
EligibleBalanceAgain ==
    LET Ok(code) == inp.prereq_map[code] \subseteq scheduled
    IN  SelectSeq(CourseOrder, Ok)

\* eligible of the load-balancing loop: code_to_course is iterated in order
EligibleBalance ==
    LET Ok(code) == /\ code \notin scheduled
                    /\ inp.prereq_map[code] \subseteq scheduled
    IN  SelectSeq(CourseOrder, Ok)

\* One iteration of `for t in range(n_terms)`.
BalanceTerm ==
    /\ ppc = "balance"
    /\ term_idx < inp.max_terms
    /\ term_idx' = term_idx + 1
    /\ LET candidates == SortByCredit(CandidatesOf(EligibleBalance, sem_label), <<>>)
           selected == IF candidates = <<>> THEN <<>>
                       ELSE dfs_balance(candidates, 1, <<>>, 0, NoBest,
                                        target_credits * Tenths).set
           semester_courses == SemesterCourses(selected)
           credits == SumCredits(semester_courses)
       IN  /\ plan' = Append(plan, [semester |-> sem_label,
                                    courses |-> semester_courses,
                                    total_credits |-> credits])
           /\ scheduled' = scheduled \cup CodesOf(semester_courses)
           /\ offerings' = AfterReserve(semester_courses)
           /\ sem_label' = next_semester_label(sem_label)
    /\ UNCHANGED <<inp, completed, remaining, term_count, solution, ppc>>
    /\ UNCHANGED <<resVars, utilVars>>

\* The load-balancing loop is through: return plan.
BalanceReturn ==
    /\ ppc = "balance"
    /\ term_idx >= inp.max_terms
    /\ ppc' = "done"
    /\ UNCHANGED <<inp, offerings, completed, remaining, scheduled, sem_label,
                   term_count, term_idx, plan, solution>>
    /\ UNCHANGED <<resVars, utilVars>>

----------------------------------------------------------------------------
(* What the planner is called with *)

MaxTerms == 3       \* max_terms ranges over 0..MaxTerms

\* No reservation request in flight, no reservation row.
ReservationsIdle ==
    /\ capacity = None
    /\ enrolled = 0
    /\ enrolled0 = 0
    /\ reservations = <<>>
    /\ now = 0
    /\ pc = [p \in Procs |-> "idle"]
    /\ call = [p \in Procs |-> NoCall]
    /\ last = NoResponse
    /\ race = NoRace

\* course_prerequisites, as build_prereq_map returns it: prerequisites of A,
\* B and C; X, a catalog course outside the pathway, has none.
PrereqMap(a, b, c) ==
    [x \in CatalogCourses |->
       CASE x = "A" -> a [] x = "B" -> b [] x = "C" -> c [] OTHER -> {}]

PrereqMaps ==
    { PrereqMap({}, {}, {}),
      PrereqMap({}, {"A"}, {"B"}),
      PrereqMap({}, {}, {"A", "B"}),
      PrereqMap({}, {"A"}, {"X"}),
      PrereqMap({"X"}, {}, {"A", "X"}) }

CompletedSets == { {}, {"A", "X"} }

\* courses.credits of A, B, C
Credits(a, b, c) ==
    [x \in PathwayCourses |-> CASE x = "A" -> a [] x = "B" -> b [] OTHER -> c]

CreditTables == { Credits(1, 1, 1), Credits(2, 2, 1) }

\* max_credits_per_semester of the request
RequestCaps == {2, 3}

\* A student_preferences row.
Preferences(mc, ud, am, ae, pi) ==
    Some([max_credits_per_term |-> mc, unavailable_days |-> ud,
          avoid_mornings |-> am, avoid_evenings |-> ae,
          preferred_instructors |-> pi])

PreferenceRows ==
    { None,
      Preferences(1, <<>>, FALSE, FALSE, {}),
      Preferences(4, <<>>, FALSE, FALSE, {"kim"}),
      Preferences(0, <<" ", "f">>, TRUE, TRUE, {"kim"}) }

\* A time string.
Time(h, m, mer) == Some([hour |-> h, minute |-> m, meridian |-> mer])

\* A course_offerings row.
Offering(course, term, year, days, st, et, cap, enr, instructor) ==
    [course |-> course, term |-> term, year |-> year, days |-> days,
     start_time |-> st, end_time |-> et, capacity |-> cap, enrolled |-> enr,
     instructor |-> instructor]

\* The same recurring offering in each of the three terms.
EveryTerm(course, days, st, et, cap, enr, instructor) ==
    << Offering(course, "Fall", None, days, st, et, cap, enr, instructor),
       Offering(course, "Spring", None, days, st, et, cap, enr, instructor),
       Offering(course, "Summer", None, days, st, et, cap, enr, instructor) >>

\* B meets TR and C meets T at overlapping hours; A is apart.
OfferingsShorthand ==
    EveryTerm("A", <<"M", "W", "F">>, Time(9, 0, ""), Time(10, 0, ""), None, None, "")
    \o EveryTerm("B", <<"T", "R">>, Time(9, 0, "AM"), Time(10, 15, "AM"), None, None, "")
    \o EveryTerm("C", <<"T">>, Time(9, 30, "AM"), Time(10, 30, "AM"), Some(2), Some(0), "kim")

\* A and B overlap on MWF; C starts when A ends.
OfferingsClash ==
    EveryTerm("A", <<"M", "W", "F">>, Time(1, 0, "PM"), Time(2, 0, "PM"), None, None, "kim")
    \o EveryTerm("B", <<"m", "w", "f">>, Time(13, 30, ""), Time(14, 30, ""), None, None, "")
    \o EveryTerm("C", <<"M", "W">>, Time(14, 0, ""), Time(15, 0, ""), None, None, "")

\* A has a full section of the year and a recurring one with space; B is
\* offered in Spring only; C has no meeting times and is taught in the evening
\* section by a preferred instructor.
OfferingsSparse ==
    << Offering("A", "Fall", Some(2025), <<"M">>, Time(9, 0, ""), Time(10, 0, ""),
                Some(1), Some(1), ""),
       Offering("A", "Fall", None, <<"M">>, Time(11, 0, ""), Time(12, 0, ""),
                Some(1), Some(0), ""),
       Offering("B", "Spring", None, <<"F">>, Time(12, 0, "AM"), Time(1, 0, "AM"),
                None, None, "") >>
    \o EveryTerm("C", <<>>, None, None, Some(1), None, "")
    \o << Offering("C", "Fall", None, <<"R">>, Time(6, 0, "PM"), Time(7, 0, "PM"),
                   None, None, "kim") >>

\* One seat left in A, none in B, C open.
OfferingsFull ==
    EveryTerm("A", <<"M">>, Time(10, 0, ""), Time(11, 0, ""), Some(1), Some(0), "")
    \o EveryTerm("B", <<"T">>, Time(10, 0, ""), Time(11, 0, ""), Some(1), Some(1), "")
    \o EveryTerm("C", <<"W">>, Time(10, 0, ""), Time(11, 0, ""), Some(2), Some(1), "kim")

OfferingTables == {OfferingsShorthand, OfferingsClash, OfferingsSparse, OfferingsFull}

StartSemester == [term |-> "Fall", year |-> 2025]

\* The arguments of optimize_pathway and the rows it reads.
PlannerInputs ==
    [ prereq_map : PrereqMaps,
      completed : CompletedSets,
      credits : CreditTables,
      max_credits_per_semester : RequestCaps,
      preferences : PreferenceRows,
      max_terms : 0..MaxTerms,
      allow_overfull : BOOLEAN,
      reserve_seats : BOOLEAN,
      balance_load : BOOLEAN ]

\* optimize_pathway up to its loops: completed, remaining, sem_label, plan,
\* term_count (greedy) and scheduled (load balancing).
InitPlan ==
    /\ inp \in PlannerInputs
    /\ offerings \in OfferingTables
    /\ completed = inp.completed
    /\ remaining = PathwayCourses \ inp.completed
    /\ scheduled = inp.completed
    /\ sem_label = StartSemester
    /\ term_count = 0
    /\ term_idx = 0
    /\ plan = <<>>
    /\ solution = <<>>
    /\ ppc = IF inp.balance_load THEN "balance" ELSE "greedy"
    /\ ReservationsIdle
    /\ UtilIdle

NextPlan ==
    \/ GreedyTerm
    \/ GreedyReturn
    \/ BalanceTerm
    \/ BalanceReturn

SpecPlan == InitPlan /\ [][NextPlan]_vars

\* A call of the greedy planner on the linear chain A -> B -> C: nothing
\* completed, no preferences row, every course offered in every term with
\* free seats, credits from 0 up to the smallest request cap.
MaxChainCredits == 2

OfferingTablesOpen == {OfferingsShorthand, OfferingsClash}

ChainInputs ==
    [ prereq_map : {PrereqMap({}, {"A"}, {"B"})},
      completed : {{}},
      credits : [PathwayCourses -> 0..MaxChainCredits],
      max_credits_per_semester : RequestCaps,
      preferences : {None},
      max_terms : 0..MaxTerms,
      allow_overfull : BOOLEAN,
      reserve_seats : BOOLEAN,
      balance_load : {FALSE} ]

InitChain ==
    /\ inp \in ChainInputs
    /\ offerings \in OfferingTablesOpen
    /\ completed = inp.completed
    /\ remaining = PathwayCourses \ inp.completed
    /\ scheduled = inp.completed
    /\ sem_label = StartSemester
    /\ term_count = 0
    /\ term_idx = 0
    /\ plan = <<>>
    /\ solution = <<>>
    /\ ppc = "greedy"
    /\ ReservationsIdle
    /\ UtilIdle

NextChain ==
    \/ GreedyTerm
    \/ GreedyReturn

SpecChain == InitChain /\ [][NextChain]_vars

\* The two modes on one input: optimize_pathway has returned from a call with
\* balance_load = false and is called again with balance_load = true and the
\* same arguments, on the rows as they were before the first call. completed,
\* remaining and term_count are locals of the greedy loop and keep what the
\* first call left in them.
InitBoth == InitPlan /\ ~inp.balance_load

CallBalanced ==
    /\ ppc = "done"
    /\ ~inp.balance_load
    /\ inp' = [inp EXCEPT !.balance_load = TRUE]
    /\ offerings' \in {t \in OfferingTables :
                         /\ Len(t) = Len(offerings)
                         /\ \A i \in 1..Len(t) :
                              [offerings[i] EXCEPT !.enrolled = t[i].enrolled] = t[i]}
    /\ scheduled' = inp.completed
    /\ sem_label' = StartSemester
    /\ term_idx' = 0
    /\ plan' = <<>>
    /\ ppc' = "balance"
    /\ UNCHANGED <<completed, remaining, term_count, solution>>
    /\ UNCHANGED <<resVars, utilVars>>

NextBoth ==
    \/ GreedyTerm
    \/ GreedyReturn
    \/ CallBalanced
    \/ BalanceTerm
    \/ BalanceReturn

SpecBoth == InitBoth /\ [][NextBoth]_vars

----------------------------------------------------------------------------
(* global_optimizer.py: optimize_pathway_exact *)

\* _next_sem_label on a label "Term YYYY", held as [term, year]
next_sem_label(label) ==
    LET term == IF label.term \in {"Fall", "Spring", "Summer"}
                THEN label.term ELSE "Fall"
        idx == CHOOSE i \in 1..3 : TermOrder[i] = term
        next_term == TermOrder[(idx % 3) + 1]
        next_year == IF term = "Fall" /\ next_term = "Spring"
                     THEN label.year + 1 ELSE label.year
    IN  [term |-> next_term, year |-> next_year]

\* remaining_codes: code_to_course in order, without the completed codes
remaining_codes ==
    LET NotDone(code) == code \notin inp.completed
    IN  SelectSeq(CourseOrder, NotDone)

RemainingSet == {remaining_codes[i] : i \in 1..Len(remaining_codes)}

\* terms = [sem0] followed by max_terms - 1 successors: never empty
RECURSIVE TermsFrom(_, _)
TermsFrom(label, n) ==
    IF n <= 1 THEN <<label>> ELSE <<label>> \o TermsFrom(next_sem_label(label), n - 1)

terms == TermsFrom(StartSemester, inp.max_terms)

\* Term indices run from 0, as range(len(terms)).
TermIndices == 0..(Len(terms) - 1)

\* cand: the offering rows of a course in a term, those of the exact year
\* first, then the recurring ones
OfferingsIn(code, label) ==
    LET Exact(off) == /\ off.course = code /\ off.term = label.term
                      /\ off.year = Some(label.year)
        Recurring(off) == /\ off.course = code /\ off.term = label.term
                          /\ IsNone(off.year)
    IN  SelectSeq(offerings, Exact) \o SelectSeq(offerings, Recurring)

\* the id of an offering row: its place in the table
OfferingId(off) == CHOOSE i \in 1..Len(offerings) : offerings[i] = off

\* availability[code][ti]
availability(code, ti) ==
    LET cand == OfferingsIn(code, terms[ti + 1])
        ok == \E k \in 1..Len(cand) :
                 \/ IsNone(cand[k].capacity)
                 \/ IsNone(cand[k].enrolled)
                 \/ Val(cand[k].enrolled) < Val(cand[k].capacity)
    IN  cand # <<>> /\ (ok \/ inp.allow_overfull)

\* The keys of x: a Boolean variable exists where the course is available.
XVars == {v \in RemainingSet \X TermIndices : availability(v[1], v[2])}

\* "each course at most once": sum(vars_for_code) <= 1
AtMostOnce(x) ==
    \A code \in RemainingSet : Cardinality({v \in x : v[1] = code}) <= 1

\* prereqs of a code, as the constraint loop filters them
FilteredPrereqs(code) ==
    {p \in inp.prereq_map[code] : p \in RemainingSet \/ p \in PathwayCourses}

\* prereq_vars of (code, t): the variables of its prerequisites before t
PrereqVars(code, tt, xvars) ==
    {v \in xvars : v[1] \in FilteredPrereqs(code) /\ v[2] < tt}

\* "prerequisites": var_c_t <= sum(prereq_vars), or var_c_t == 0 when there
\* is no prerequisite variable before t
PrereqConstraints(x, xvars) ==
    \A v \in xvars :
       FilteredPrereqs(v[1]) # {} =>
          IF PrereqVars(v[1], v[2], xvars) # {}
          THEN v \in x => Cardinality(x \cap PrereqVars(v[1], v[2], xvars)) >= 1
          ELSE v \notin x

\* credits of the codes x places in term t
TermCredits(x, tt) ==
    SumOver({v[1] : v \in {w \in x : w[2] = tt}}, inp.credits)

\* "credits per term <= cap"
CreditConstraints(x) ==
    \A tt \in TermIndices : TermCredits(x, tt) <= inp.max_credits_per_semester

\* The assignments that satisfy the model.
Feasible ==
    LET xvars == XVars
    IN  {x \in SUBSET xvars :
           AtMostOnce(x) /\ PrereqConstraints(x, xvars) /\ CreditConstraints(x)}

\* The objective: sum of t * credits over the variables set to 1.
RECURSIVE Objective(_)
Objective(x) ==
    IF x = {} THEN 0
    ELSE LET v == CHOOSE w \in x : TRUE
         IN  v[2] * inp.credits[v[1]] + Objective(x \ {v})

\* The assignments of least objective among the feasible ones.
OptimalOf(feasible) ==
    LET values == {Objective(x) : x \in feasible}
        least == CHOOSE m \in values : \A n \in values : m <= n
    IN  {x \in feasible : Objective(x) = least}

\* offering_info of the first candidate, None without one
OfferingInfo(code, label) ==
    LET candidates == OfferingsIn(code, label)
    IN  IF candidates = <<>> THEN None
        ELSE Some([id |-> OfferingId(candidates[1]),
                   days |-> candidates[1].days,
                   start_time |-> candidates[1].start_time,
                   end_time |-> candidates[1].end_time,
                   capacity |-> candidates[1].capacity,
                   enrolled |-> candidates[1].enrolled,
                   status |-> OfferingStatus(candidates[1])])

\* "build plan": one entry per term, its courses in remaining_codes order
ExactPlan(x) ==
    [i \in 1..Len(terms) |->
       LET Placed(code) == <<code, i - 1>> \in x
           codes == SelectSeq(remaining_codes, Placed)
           semester_courses ==
              [k \in 1..Len(codes) |->
                 [course_code |-> codes[k],
                  credits |-> inp.credits[codes[k]],
                  offering |-> OfferingInfo(codes[k], terms[i])]]
       IN  [semester |-> terms[i],
            courses |-> semester_courses,
            total_credits |-> SumCredits(semester_courses)]]

\* `if not remaining_codes: return []`
ExactNothingRemaining ==
    /\ ppc = "exact"
    /\ remaining_codes = <<>>
    /\ ppc' = "done"
    /\ UNCHANGED <<inp, offerings, completed, remaining, scheduled, sem_label,
                   term_count, term_idx, plan, solution>>
    /\ UNCHANGED <<resVars, utilVars>>

\* solver.Solve(model) ends OPTIMAL with an assignment of least objective,
\* or FEASIBLE, at the deadline, with any assignment that satisfies the
\* model; then the plan is built from it.
ExactSolved ==
    /\ ppc = "exact"
    /\ remaining_codes # <<>>
    /\ LET feasible == Feasible
           optimal == OptimalOf(feasible)
       IN  \E status \in {"OPTIMAL", "FEASIBLE"} :
             \E x \in (IF status = "OPTIMAL" THEN optimal ELSE feasible) :
                /\ solution' = [status |-> status, x |-> x]
                /\ plan' = ExactPlan(x)
    /\ ppc' = "done"
    /\ UNCHANGED <<inp, offerings, completed, remaining, scheduled, sem_label,
                   term_count, term_idx>>
    /\ UNCHANGED <<resVars, utilVars>>

\* solver.Solve(model) reaches the deadline with no assignment: return []
ExactTimedOut ==
    /\ ppc = "exact"
    /\ remaining_codes # <<>>
    /\ solution' = [status |-> "UNKNOWN", x |-> {}]
    /\ ppc' = "done"
    /\ UNCHANGED <<inp, offerings, completed, remaining, scheduled, sem_label,
                   term_count, term_idx, plan>>
    /\ UNCHANGED <<resVars, utilVars>>

\* courses.credits of A, B, C, with a course of no credits among them
ExactCreditTables == CreditTables \cup {Credits(1, 1, 0)}

ExactCompletedSets == CompletedSets \cup {{"A", "B", "C"}}

\* The arguments of optimize_pathway_exact.
ExactInputs ==
    [ prereq_map : PrereqMaps,
      completed : ExactCompletedSets,
      credits : ExactCreditTables,
      max_credits_per_semester : RequestCaps,
      max_terms : 0..MaxTerms,
      allow_overfull : BOOLEAN ]

InitExact ==
    /\ inp \in ExactInputs
    /\ offerings \in OfferingTables
    /\ completed = inp.completed
    /\ remaining = {}
    /\ scheduled = {}
    /\ sem_label = StartSemester
    /\ term_count = 0
    /\ term_idx = 0
    /\ plan = <<>>
    /\ solution = <<>>
    /\ ppc = "exact"
    /\ ReservationsIdle
    /\ UtilIdle

NextExact ==
    \/ ExactNothingRemaining
    \/ ExactSolved
    \/ ExactTimedOut

SpecExact == InitExact /\ [][NextExact]_vars

\* A call of either planner: optimize_pathway in one of its two modes or
\* optimize_pathway_exact.
InitPlanners == InitPlan \/ InitExact

NextPlanners ==
    \/ GreedyTerm
    \/ GreedyReturn
    \/ BalanceTerm
    \/ BalanceReturn
    \/ ExactNothingRemaining
    \/ ExactSolved
    \/ ExactTimedOut

SpecPlanners == InitPlanners /\ [][NextPlanners]_vars

----------------------------------------------------------------------------
(* services/score: the schedule scorer score_courses *)

\* A clock string "HH:MM:SS", "HH:MM" or "HH" is the sequence of the numbers
\* between its colons; a day string is the sequence of its characters.  A
\* score is counted in tenths of a point (Tenths), which holds the half
\* point per gap minute and the 0.2 per gap minute of the contiguous bonus.

\* Python truth of a nullable string: neither None nor empty.
Truthy(s) == ~IsNone(s) /\ Len(Val(s)) > 0

\* _to_time_obj: None stays None; a string becomes time(h, m, s), a missing
\* part being 0.
to_time_obj(t) ==
    IF IsNone(t) THEN None
    ELSE LET parts == Val(t)
         IN  Some([hour |-> parts[1],
                   minute |-> IF Len(parts) > 1 THEN parts[2] ELSE 0,
                   second |-> IF Len(parts) > 2 THEN parts[3] ELSE 0])

\* The order of datetime.time values.
TimeSeconds(tm) == tm.hour * 3600 + tm.minute * 60 + tm.second

\* set(days.upper())
UpperSet(days) == {Upper(Val(days)[i]) : i \in 1..Len(Val(days))}

has_day_overlap(days1, days2) ==
    IF ~Truthy(days1) \/ ~Truthy(days2) THEN FALSE
    ELSE UpperSet(days1) \cap UpperSet(days2) # {}

has_time_overlap(start1, end1, start2, end2) ==
    LET s1 == to_time_obj(start1)
        e1 == to_time_obj(end1)
        s2 == to_time_obj(start2)
        e2 == to_time_obj(end2)
    IN  IF IsNone(s1) \/ IsNone(e1) \/ IsNone(s2) \/ IsNone(e2) THEN FALSE
        ELSE /\ TimeSeconds(Val(s1)) < TimeSeconds(Val(e2))
             /\ TimeSeconds(Val(s2)) < TimeSeconds(Val(e1))

\* Whole minutes from t1 to t2 (floor), 0 when either is missing.
minutes_between(t1, t2) ==
    LET a == to_time_obj(t1)
        b == to_time_obj(t2)
    IN  IF IsNone(a) \/ IsNone(b) THEN 0
        ELSE (TimeSeconds(Val(b)) - TimeSeconds(Val(a))) \div 60

\* The default weights, in tenths of a point.
weights ==
    [conflict_penalty |-> 1000 * Tenths,
     gap_penalty_per_minute |-> 5,
     rating_weight |-> 20 * Tenths,
     day_penalty_per_day |-> 75 * Tenths,
     compactness_reward |-> 50 * Tenths,
     base |-> 500 * Tenths,
     unavailable_day_penalty |-> 500 * Tenths,
     avoid_morning_penalty |-> 150 * Tenths,
     avoid_evening_penalty |-> 150 * Tenths,
     preferred_instructor_reward |-> 75 * Tenths,
     outside_window_penalty |-> 200 * Tenths,
     max_days_penalty |-> 100 * Tenths,
     preferred_day_reward |-> 50 * Tenths,
     max_gaps_penalty |-> 1 * Tenths,
     contiguous_bonus |-> 100 * Tenths,
     preferred_location_reward |-> 50 * Tenths,
     preferred_time_reward |-> 50 * Tenths]

\* `conflicts`, as the index pairs appended by the loop over i < j.
conflicts(courses) ==
    LET HasSchedule(c) ==
            Truthy(c.days_of_week) /\ Truthy(c.start_time) /\ Truthy(c.end_time)
        IsConflict(c1, c2) ==
            /\ c1.id # c2.id
            /\ ~(~IsNone(c1.semester) /\ ~IsNone(c2.semester)
                 /\ c1.semester # c2.semester)
            /\ HasSchedule(c1)
            /\ HasSchedule(c2)
            /\ has_day_overlap(c1.days_of_week, c2.days_of_week)
            /\ has_time_overlap(c1.start_time, c1.end_time,
                                c2.start_time, c2.end_time)
    IN  {ij \in (1..Len(courses)) \X (1..Len(courses)) :
            ij[1] < ij[2] /\ IsConflict(courses[ij[1]], courses[ij[2]])}

weekdays == <<"M", "T", "W", "R", "F", "S">>

\* The courses meeting on `day`, in list order.
day_courses(courses, day) ==
    SelectSeq(courses,
              LAMBDA c : /\ Truthy(c.days_of_week)
                         /\ day \in UpperSet(c.days_of_week)
                         /\ Truthy(c.start_time)
                         /\ Truthy(c.end_time))

\* list.sort(key=start_key): stable.
InsertByStart(s, x) ==
    LET start_key(c) == TimeSeconds(Val(to_time_obj(c.start_time)))
        k == Cardinality({i \in 1..Len(s) : start_key(s[i]) <= start_key(x)})
    IN  SubSeq(s, 1, k) \o <<x>> \o SubSeq(s, k + 1, Len(s))

RECURSIVE SortByStart(_, _)
SortByStart(s, acc) ==
    IF s = <<>> THEN acc ELSE SortByStart(Tail(s), InsertByStart(acc, Head(s)))

\* The positive gaps between consecutive courses of a sorted day.
RECURSIVE GapsBetween(_)
GapsBetween(s) ==
    IF Len(s) < 2 THEN 0
    ELSE LET gap == minutes_between(s[1].end_time, s[2].start_time)
         IN  (IF gap > 0 THEN gap ELSE 0) + GapsBetween(Tail(s))

day_gaps(courses, day) ==
    GapsBetween(SortByStart(day_courses(courses, day), <<>>))

\* The days of `weekdays` on which some course meets.
DaysUsed(courses) ==
    {i \in 1..Len(weekdays) : day_courses(courses, weekdays[i]) # <<>>}

RECURSIVE SumDays(_, _)
SumDays(D, g) ==
    IF D = {} THEN 0
    ELSE LET d == CHOOSE x \in D : TRUE IN g[d] + SumDays(D \ {d}, g)

total_gaps_minutes(courses) ==
    SumDays(DaysUsed(courses),
            [i \in DaysUsed(courses) |-> day_gaps(courses, weekdays[i])])

distinct_days(courses) ==
    LET valid_days == {"M", "T", "W", "R", "F"}
        all_days == UNION {UpperSet(courses[i].days_of_week) :
                             i \in {j \in 1..Len(courses) :
                                      Truthy(courses[j].days_of_week)}}
    IN  Cardinality(all_days \cap valid_days)

\* prefs.get(...) of every key the scorer reads, an absent key being None,
\* FALSE, the empty set or the empty string as the code defaults it.  The
\* instructor and location names are given stripped and in lower case.
NoPreferences ==
    [avoid_mornings |-> FALSE,
     avoid_evenings |-> FALSE,
     unavailable_days |-> None,
     preferred_instructors |-> {},
     earliest_start_time |-> None,
     latest_end_time |-> None,
     max_days_per_week |-> None,
     preferred_days |-> None,
     max_gaps_per_day |-> None,
     contiguous_classes |-> FALSE,
     preferred_locations |-> {},
     preferred_time_of_day |-> ""]

\* The statements of score_courses, for a call without weights and without
\* db (no rating term): the score and the breakdown.  The adjustments are
\* nested as the statements are indented: the instructor reward and, at its
\* depth inside `if preferred_instructors:`, every adjustment after it.
score_body(courses, preferences) ==
    LET prefs == IF IsNone(preferences) THEN NoPreferences ELSE Val(preferences)
        \* how many courses of the list pass a test
        CountCourses(Test(_)) ==
            Cardinality({i \in 1..Len(courses) : Test(courses[i])})
        \* `x or ''` of a nullable day string
        OrEmpty(s) == IF IsNone(s) THEN Some(<<>>) ELSE s
        MeetsOn(c, days) ==
            /\ Truthy(c.days_of_week)
            /\ UpperSet(days) \cap UpperSet(c.days_of_week) # {}
        conflict_count == Cardinality(conflicts(courses))
        compactness_bonus ==
            Max(0, 5 - distinct_days(courses)) * weights.compactness_reward
        \* lines 184-190: one penalty per course meeting on an unavailable day
        unavailable_days == OrEmpty(prefs.unavailable_days)
        unavailable_adjustment ==
            IF Truthy(unavailable_days)
            THEN - weights.unavailable_day_penalty
                   * CountCourses(LAMBDA c : MeetsOn(c, unavailable_days))
            ELSE 0
        \* lines 192-199
        StartsInMorning(c) ==
            LET st == to_time_obj(c.start_time)
            IN  ~IsNone(st) /\ Val(st).hour < 10
        morning_adjustment ==
            IF prefs.avoid_mornings
            THEN - weights.avoid_morning_penalty * CountCourses(StartsInMorning)
            ELSE 0
        \* lines 201-208
        EndsInEvening(c) ==
            LET et == to_time_obj(c.end_time)
            IN  ~IsNone(et) /\ Val(et).hour >= 18
        evening_adjustment ==
            IF prefs.avoid_evenings
            THEN - weights.avoid_evening_penalty * CountCourses(EndsInEvening)
            ELSE 0
        \* lines 211-216
        instructor_adjustment ==
            weights.preferred_instructor_reward
              * CountCourses(LAMBDA c :
                    /\ ~IsNone(c.instructor)
                    /\ Val(c.instructor) \in prefs.preferred_instructors)
        \* lines 219-230: the window penalties
        earliest_start_time == to_time_obj(prefs.earliest_start_time)
        latest_end_time == to_time_obj(prefs.latest_end_time)
        StartsEarly(c) ==
            LET st == to_time_obj(c.start_time)
            IN  /\ ~IsNone(earliest_start_time)
                /\ ~IsNone(st)
                /\ TimeSeconds(Val(st)) < TimeSeconds(Val(earliest_start_time))
        EndsLate(c) ==
            LET et == to_time_obj(c.end_time)
            IN  /\ ~IsNone(latest_end_time)
                /\ ~IsNone(et)
                /\ TimeSeconds(Val(et)) > TimeSeconds(Val(latest_end_time))
        window_adjustment ==
            IF ~IsNone(earliest_start_time) \/ ~IsNone(latest_end_time)
            THEN - weights.outside_window_penalty
                   * (CountCourses(StartsEarly) + CountCourses(EndsLate))
            ELSE 0
        \* lines 233-261: preferred days, locations and time of day
        preferred_days == OrEmpty(prefs.preferred_days)
        InPreferredTime(c) ==
            LET st == to_time_obj(c.start_time)
            IN  /\ ~IsNone(st)
                /\ \/ /\ prefs.preferred_time_of_day = "morning"
                      /\ Val(st).hour < 12
                   \/ /\ prefs.preferred_time_of_day = "afternoon"
                      /\ Val(st).hour >= 12
        preferred_adjustment ==
            weights.preferred_day_reward
              * (IF Truthy(preferred_days)
                 THEN CountCourses(LAMBDA c : MeetsOn(c, preferred_days))
                 ELSE 0)
            + weights.preferred_location_reward
              * CountCourses(LAMBDA c :
                    /\ ~IsNone(c.location)
                    /\ Val(c.location) \in prefs.preferred_locations)
            + weights.preferred_time_reward * CountCourses(InPreferredTime)
        \* lines 264-268
        max_days_adjustment ==
            IF /\ ~IsNone(prefs.max_days_per_week)
               /\ distinct_days(courses) > Val(prefs.max_days_per_week)
            THEN - (distinct_days(courses) - Val(prefs.max_days_per_week))
                   * weights.max_days_penalty
            ELSE 0
        \* lines 271-302: the per-day gap limit and the contiguous bonus
        used == DaysUsed(courses)
        gaps_by_day == [i \in used |-> day_gaps(courses, weekdays[i])]
        over == [i \in used |->
                    IF /\ ~IsNone(prefs.max_gaps_per_day)
                       /\ gaps_by_day[i] > Val(prefs.max_gaps_per_day)
                    THEN gaps_by_day[i] - Val(prefs.max_gaps_per_day)
                    ELSE 0]
        bonus == Max(0, weights.contiguous_bonus - SumDays(used, gaps_by_day) * 2)
        gaps_adjustment ==
            - weights.max_gaps_penalty * SumDays(used, over)
            + (IF prefs.contiguous_classes THEN bonus ELSE 0)
        \* lines 210-302
        instructors_block ==
            IF prefs.preferred_instructors # {}
            THEN instructor_adjustment
                 + window_adjustment
                 + preferred_adjustment
                 + max_days_adjustment
                 + gaps_adjustment
            ELSE 0
    IN  [score |-> weights.base
                   - conflict_count * weights.conflict_penalty
                   - total_gaps_minutes(courses) * weights.gap_penalty_per_minute
                   - distinct_days(courses) * weights.day_penalty_per_day
                   + compactness_bonus
                   + unavailable_adjustment
                   + morning_adjustment
                   + evening_adjustment
                   + instructors_block,
         base |-> weights.base,
         conflict_count |-> conflict_count,
         total_gaps_minutes |-> total_gaps_minutes(courses),
         distinct_days |-> distinct_days(courses),
         compactness_bonus |-> compactness_bonus]

\* The layout of the statements around line 149 of score.py: the columns
\* they start at, and whether the statement ends in a colon.
body_layout ==
    <<[line |-> 146, indent |-> 4, opens_block |-> FALSE],
      [line |-> 147, indent |-> 4, opens_block |-> FALSE],
      [line |-> 148, indent |-> 4, opens_block |-> FALSE],
      [line |-> 149, indent |-> 8, opens_block |-> FALSE],
      [line |-> 151, indent |-> 8, opens_block |-> FALSE]>>

\* Python's rule: a statement is indented deeper than the one before it
\* only when that one opens a block.  Otherwise compiling the module raises
\* IndentationError, and so does every import of services.score.
module_compiles ==
    \A i \in 1..(Len(body_layout) - 1) :
        body_layout[i + 1].indent > body_layout[i].indent
            => body_layout[i].opens_block

\* What a caller of score_courses gets: the caller first imports the module.
\* A result is the error raised, or "" and the value returned.
score_courses(courses, preferences) ==
    IF module_compiles
    THEN [error |-> "", value |-> Some(score_body(courses, preferences))]
    ELSE [error |-> "IndentationError", value |-> None]

\* ---- The calls made of the scorer

ClockText(h, m) == Some(<<h, m, 0>>)

Course(id, code, semester, days, times, instructor) ==
    [id |-> id, course_code |-> code, semester |-> semester,
     days_of_week |-> days, start_time |-> times[1], end_time |-> times[2],
     instructor |-> instructor, location |-> None]

FirstCourses ==
    {Course(1, "CSCI-1000", sem, days, times, None) :
        sem \in {Some("Fall 2025"), None},
        days \in {None, Some(<<"M", "W", "F">>), Some(<<"T", "R">>),
                  Some(<<"t">>)},
        times \in {<<ClockText(9, 0), ClockText(10, 0)>>,
                   <<ClockText(9, 30), ClockText(10, 30)>>,
                   <<ClockText(10, 0), ClockText(11, 0)>>,
                   <<ClockText(13, 0), ClockText(14, 15)>>,
                   <<ClockText(17, 0), ClockText(18, 30)>>,
                   <<None, ClockText(10, 0)>>}}

\* The course lists scored: one, two or three courses; in the last list two
\* courses start a Monday at the same time and end at different times, and
\* the third starts later that day.
Schedules ==
    LET SecondCourses ==
            {Course(id, "PHYS-2000", sem, days, times, Some("kim")) :
                id \in {1, 2},
                sem \in {Some("Fall 2025"), Some("Spring 2026")},
                days \in {Some(<<"M", "W", "F">>), Some(<<"T">>)},
                times \in {<<ClockText(9, 30), ClockText(10, 30)>>,
                           <<ClockText(10, 0), ClockText(11, 0)>>}}
        ThirdCourse ==
            Course(3, "MATH-1010", Some("Fall 2025"), Some(<<"M", "W", "F">>),
                   <<ClockText(9, 45), ClockText(10, 15)>>, None)
    IN  {<<a>> : a \in FirstCourses}
        \cup {<<a, b>> : a \in FirstCourses, b \in SecondCourses}
        \cup {<<a, b, ThirdCourse>> : a \in FirstCourses, b \in SecondCourses}
        \cup {<<Course(1, "CSCI-1000", Some("Fall 2025"), Some(<<"M">>),
                       <<ClockText(9, 0), ClockText(10, 0)>>, None),
                Course(2, "PHYS-2000", Some("Fall 2025"), Some(<<"M">>),
                       <<ClockText(9, 0), ClockText(11, 0)>>, None),
                Course(3, "MATH-1010", Some("Fall 2025"), Some(<<"M">>),
                       <<ClockText(12, 0), ClockText(13, 0)>>, None)>>}

ScorePreferences ==
    {None,
     Some([NoPreferences EXCEPT !.avoid_mornings = TRUE]),
     Some([NoPreferences EXCEPT !.earliest_start_time = ClockText(10, 0)]),
     Some([NoPreferences EXCEPT !.earliest_start_time = ClockText(10, 0),
                                !.latest_end_time = ClockText(18, 0),
                                !.preferred_instructors = {"kim"},
                                !.preferred_time_of_day = "morning"]),
     Some([NoPreferences EXCEPT !.unavailable_days = Some(<<"f">>),
                                !.avoid_evenings = TRUE,
                                !.preferred_instructors = {"kim"},
                                !.max_days_per_week = Some(2),
                                !.max_gaps_per_day = Some(0),
                                !.contiguous_classes = TRUE,
                                !.preferred_days = Some(<<"T">>)])}

\* A caller scores one schedule, or two one-course schedules one after the
\* other, under the same preferences.
ScoreRequests ==
    [schedules : {<<s>> : s \in Schedules}
                 \cup {<<<<a>>, <<b>>>> : a \in FirstCourses, b \in FirstCourses},
     preferences : ScorePreferences]

InitScore ==
    /\ score_req \in ScoreRequests
    /\ score_res = <<>>
    /\ fn_arg = <<>>
    /\ fn_ret = <<>>
    /\ PlannerIdle
    /\ ReservationsIdle

\* The caller's next score_courses call.
ScoreCall ==
    /\ score_req # <<>>
    /\ Len(score_res) < Len(score_req.schedules)
    /\ score_res' = Append(score_res,
                           score_courses(score_req.schedules[Len(score_res) + 1],
                                         score_req.preferences))
    /\ UNCHANGED <<score_req, fn_arg, fn_ret>>
    /\ UNCHANGED <<resVars, planVars>>

NextScore == ScoreCall

SpecScore == InitScore /\ [][NextScore]_vars

----------------------------------------------------------------------------
(* The three term successors side by side: _next_semester_label             *)
(* (pathway_optimizer), _next_sem_label (global_optimizer) and              *)
(* _advance_label (four_year_controller)                                    *)

\* a successor that keeps the year when it goes from Fall to Spring
advance_label_same_year(label) ==
    IF "term" \notin DOMAIN label \/ label.term \notin {"Fall", "Spring", "Summer"}
    THEN [text |-> label, appended |-> "+1"]
    ELSE LET idx == CHOOSE i \in 1..3 : TermOrder[i] = label.term
         IN  [term |-> TermOrder[(idx % 3) + 1], year |-> label.year]

\* _advance_label on a label "Term YYYY", held as [term, year]; a label whose
\* first word is no term comes back with "+1" appended to its text.
advance_label(label) ==
    IF "term" \notin DOMAIN label \/ label.term \notin {"Fall", "Spring", "Summer"}
    THEN [text |-> label, appended |-> "+1"]
    ELSE LET idx == CHOOSE i \in 1..3 : TermOrder[i] = label.term
             next_term == TermOrder[(idx % 3) + 1]
             next_year == IF label.term = "Fall" /\ next_term = "Spring"
                          THEN label.year + 1 ELSE label.year
         IN  [term |-> next_term, year |-> next_year]

FirstYear == 2000
MaxYears == 40      \* the labels' years range over FirstYear..FirstYear + MaxYears
MaxAdvances == 3    \* successive applications of a successor

\* The labels the successors are started from: the canonical ones, and one
\* whose first word is no term.
Labels ==
    [term : {"Fall", "Spring", "Summer", "Winter"},
     year : FirstYear..(FirstYear + MaxYears)]

InitLabel ==
    /\ fn_arg \in Labels
    /\ fn_ret = <<>>
    /\ score_req = <<>>
    /\ score_res = <<>>
    /\ PlannerIdle
    /\ ReservationsIdle

\* Each implementation is applied to the label it returned last.
AdvanceLabel ==
    /\ fn_arg \in Labels
    /\ Len(fn_ret) < MaxAdvances
    /\ LET prev == IF fn_ret = <<>>
                   THEN [pathway |-> fn_arg, global |-> fn_arg,
                         controller |-> fn_arg]
                   ELSE fn_ret[Len(fn_ret)]
       IN  fn_ret' = Append(fn_ret,
                            [pathway |-> next_semester_label(prev.pathway),
                             global |-> next_sem_label(prev.global),
                             controller |-> advance_label(prev.controller)])
    /\ UNCHANGED <<fn_arg, score_req, score_res>>
    /\ UNCHANGED <<resVars, planVars>>

NextLabel == AdvanceLabel

SpecLabel == InitLabel /\ [][NextLabel]_vars

----------------------------------------------------------------------------
(* parse_days applied to day strings, and again to what it returned *)

MaxDayLen == 3      \* day strings of up to MaxDayLen letters

\* The strings over the day letters.
DayStrings ==
    UNION {[1..n -> DayLetters] : n \in 0..MaxDayLen}

InitDays ==
    /\ fn_arg \in DayStrings
    /\ fn_ret = <<>>
    /\ score_req = <<>>
    /\ score_res = <<>>
    /\ PlannerIdle
    /\ ReservationsIdle

\* parse_days(days) of an offering's days or of unavailable_days.
ParseDays ==
    /\ fn_arg \in DayStrings
    /\ fn_ret = <<>>
    /\ fn_ret' = <<parse_days(fn_arg)>>
    /\ UNCHANGED <<fn_arg, score_req, score_res>>
    /\ UNCHANGED <<resVars, planVars>>

\* parse_days of the set returned, written out as a string: a set's letters
\* come in any order.
ParseDaysAgain ==
    /\ fn_arg \in DayStrings
    /\ Len(fn_ret) = 1
    /\ \E written \in OrdersOf(fn_ret[1]) :
          fn_ret' = Append(fn_ret, parse_days(written))
    /\ UNCHANGED <<fn_arg, score_req, score_res>>
    /\ UNCHANGED <<resVars, planVars>>

NextDays == ParseDays \/ ParseDaysAgain

SpecDays == InitDays /\ [][NextDays]_vars

----------------------------------------------------------------------------
(* Properties of the heuristic planner *)

Returned == ppc = "done"

\* The courses listed in the term entries before position i.
ListedBefore(i) ==
    UNION {CodesOf(plan[j].courses) : j \in 1..(i - 1)}

\* C1: in the plan of the heuristic planner (greedy or load-balancing), as
\* it is returned and after every term entry appended on the way, every
\* prerequisite in the prerequisite map of a course listed at position i is
\* in the request's completed set or is listed at a position strictly
\* before i.
C1_PrereqsCompletedOrEarlier ==
    \A i \in 1..Len(plan) :
      \A c \in CodesOf(plan[i].courses) :
        inp.prereq_map[c] \subseteq (inp.completed \cup ListedBefore(i))

\* C1 witness: a returned plan that lists a course whose prerequisite was not
\* completed beforehand and is listed in an earlier term entry.
C1_PrereqPlacedEarlier ==
    /\ Returned
    /\ \E i \in 2..Len(plan) :
         \E c \in CodesOf(plan[i].courses) :
           \E p \in inp.prereq_map[c] :
              p \notin inp.completed /\ p \in ListedBefore(i)

\* A day string read as the set of its day letters ("TR" is T and R).
DayLettersOf(days) ==
    LET s == Strip(days)
    IN  {Upper(s[i]) : i \in 1..Len(s)} \cap DayLetters

\* Two listed offerings share a day and their half-open intervals overlap.
MeetTogether(a, b) ==
    /\ DayLettersOf(a.days) \cap DayLettersOf(b.days) # {}
    /\ ~IsNone(a.start_time) /\ ~IsNone(a.end_time)
    /\ ~IsNone(b.start_time) /\ ~IsNone(b.end_time)
    /\ Val(parse_time(a.start_time)) < Val(parse_time(b.end_time))
    /\ Val(parse_time(b.start_time)) < Val(parse_time(a.end_time))

\* C6: in every term entry of a heuristic plan no two listed offerings share
\* a meeting day and overlap in time, the day string being read as the set
\* of its letters.
C6_NoTwoOfferingsMeetTogether ==
    \A i \in 1..Len(plan) :
      \A k, l \in 1..Len(plan[i].courses) :
        k < l => ~MeetTogether(plan[i].courses[k].offering,
                               plan[i].courses[l].offering)

\* The cap as the specification has it: the smaller of the request's cap and
\* the preference's, when the preference is set.
ClaimedCap ==
    IF IsNone(pref_max_credits) THEN inp.max_credits_per_semester
    ELSE Min(inp.max_credits_per_semester, Val(pref_max_credits))

\* C7: in every term entry of a greedy plan, total_credits is at most the
\* smaller of the request's max_credits_per_semester and the stored
\* preference's max_credits_per_term (when set).
C7_TermWithinSmallerCap ==
    ~inp.balance_load =>
      \A i \in 1..Len(plan) : plan[i].total_credits <= ClaimedCap

\* ceil(total remaining credits / max_terms), for max_terms > 0
CeilShare == (total_credits + inp.max_terms - 1) \div inp.max_terms

\* C15: in load-balancing mode every term entry has total_credits at most
\* target_credits = min(effective cap, ceil(total remaining credits /
\* max_terms)), the effective cap being the smaller of the request's cap and
\* the preference's.
C15_BalancedTermWithinTarget ==
    (inp.balance_load /\ inp.max_terms > 0) =>
      \A i \in 1..Len(plan) : plan[i].total_credits <= Min(ClaimedCap, CeilShare)

\* The canonical successor of a term label: Fall Y -> Spring Y+1,
\* Spring Y -> Summer Y, Summer Y -> Fall Y.
CanonicalSuccessor(label) ==
    CASE label.term = "Fall" -> [term |-> "Spring", year |-> label.year + 1]
      [] label.term = "Spring" -> [term |-> "Summer", year |-> label.year]
      [] label.term = "Summer" -> [term |-> "Fall", year |-> label.year]

RECURSIVE NthTerm(_)
NthTerm(i) == IF i = 1 THEN StartSemester ELSE CanonicalSuccessor(NthTerm(i - 1))

\* The plan lists the first k courses of the chain, the i-th alone in the
\* i-th term counting from start_semester, and nothing else.
ChainPlacedUpTo(k) ==
    /\ Len(plan) = k
    /\ \A i \in 1..k :
         /\ Len(plan[i].courses) = 1
         /\ plan[i].courses[1].course_code = CourseOrder[i]
         /\ plan[i].semester = NthTerm(i)

ChainLength == Len(CourseOrder)

\* The call the chain scenario is about: max_terms >= n and no course with
\* more credits than the cap.
ChainCall ==
    /\ inp.max_terms >= ChainLength
    /\ \A c \in PathwayCourses : inp.credits[c] <= inp.max_credits_per_semester

\* C14 as stated: for the chain with credits of any non-negative size up to
\* the cap and max_terms >= n, the returned greedy plan lists the i-th course
\* alone in the i-th term.
C14_ChainOneCoursePerTerm ==
    (Returned /\ ChainCall) => ChainPlacedUpTo(ChainLength)

\* The courses of the chain in front of its first course without credits.
CreditedPrefix ==
    IF \E i \in 1..ChainLength : inp.credits[CourseOrder[i]] = 0
    THEN (CHOOSE i \in 1..ChainLength :
            /\ inp.credits[CourseOrder[i]] = 0
            /\ \A j \in 1..(i - 1) : inp.credits[CourseOrder[j]] > 0) - 1
    ELSE ChainLength

\* C14 amended: with max_terms >= n the returned greedy plan lists the i-th
\* course alone in the i-th term for the courses in front of the first one
\* without credits, all n of them when every course has at least one credit,
\* and lists neither a course without credits nor a course behind it.
C14_ChainPlacedWhileCredited ==
    (Returned /\ ChainCall) => ChainPlacedUpTo(CreditedPrefix)

\* C14 witness: every course of the chain has credits, max_terms >= n, and
\* the returned plan has the last course of the chain in its n-th entry.
C14_WholeChainPlaced ==
    /\ Returned
    /\ ChainCall
    /\ inp.prereq_map["C"] = {"B"} /\ inp.prereq_map["B"] = {"A"}
    /\ \A c \in PathwayCourses : inp.credits[c] > 0
    /\ Len(plan) = ChainLength
    /\ plan[ChainLength].courses[1].course_code = "C"
    /\ plan[ChainLength].semester = [term |-> "Summer", year |-> 2026]

\* The candidates of the greedy term about to be planned, as a set: the
\* eligible courses with the offering chosen for them and their weighted
\* credits.
TermCandidates ==
    LET order == CHOOSE o \in OrdersOf(EligibleGreedy) : TRUE
        cands == CandidatesOf(order, sem_label)
    IN  {cands[i] : i \in 1..Len(cands)}

\* Base credits of a set of candidates.
BaseCredits(S) == SumOver({c.code : c \in S}, inp.credits)

\* Weighted credits of a set of candidates, in tenths.
RECURSIVE WeightedCredits(_)
WeightedCredits(S) ==
    IF S = {} THEN 0
    ELSE LET c == CHOOSE x \in S : TRUE IN c.cred + WeightedCredits(S \ {c})

\* No two candidates of the set meet together.
PairwiseApart(S) ==
    \A a, b \in S :
       a # b => ~MeetTogether(offerings[a.off], offerings[b.off])

\* A step of the greedy loop that plans a term.
GreedyTermStep == ppc = "greedy" /\ term_count' = term_count + 1

\* The candidates the step packs into the term.
PackedByStep == {c \in TermCandidates : c.code \in remaining \ remaining'}

\* C25: in every greedy term, a set of pairwise non-conflicting candidates
\* whose base credits sum to at most the cap is admissible to the packer,
\* whatever the preferred-instructor bonuses add: the packed set, which has
\* the most weighted credits of the admissible sets, has at least the
\* weighted credits of that set.
C25_BonusNotCountedTowardCap ==
    [][GreedyTermStep =>
         \A S \in SUBSET TermCandidates :
            (PairwiseApart(S) /\ BaseCredits(S) <= ClaimedCap)
            => WeightedCredits(S) <= WeightedCredits(PackedByStep)]_vars

\* C26: with no instructor preference set, the set packed into a greedy term
\* is within the cap, pairwise conflict-free and lists each course once, and
\* no subset of the term's candidates that is within the cap and pairwise
\* conflict-free has more credits.
C26_PackedSetFeasibleAndLargest ==
    [][(GreedyTermStep /\ pref_instructors = {}) =>
         /\ BaseCredits(PackedByStep) <= ClaimedCap
         /\ PairwiseApart(PackedByStep)
         /\ Len(plan') > Len(plan) =>
              LET courses == plan'[Len(plan')].courses
              IN  /\ Cardinality(CodesOf(courses)) = Len(courses)
                  /\ CodesOf(courses) = {c.code : c \in PackedByStep}
         /\ \A S \in SUBSET TermCandidates :
               (PairwiseApart(S) /\ BaseCredits(S) <= ClaimedCap)
               => BaseCredits(S) <= BaseCredits(PackedByStep)]_vars

\* The offerings of a course that match the term of the label, with the
\* label's year or without a year.
MatchingOfferings(code, label) ==
    {i \in 1..Len(offerings) :
       /\ offerings[i].course = code
       /\ offerings[i].term = label.term
       /\ (IsNone(offerings[i].year) \/ offerings[i].year = Some(label.year))}

\* An offering with a free seat: no capacity, no count of enrolled students,
\* or fewer enrolled than the capacity.
Spacious(off) ==
    \/ IsNone(off.capacity)
    \/ IsNone(off.enrolled)
    \/ Val(off.enrolled) < Val(off.capacity)

\* C28: for every course and the term being planned, the offering selector
\* returns none exactly when no offering matches the term (year equal or
\* null), or none of the matching ones has space and allow_overfull is false;
\* otherwise it returns a matching offering, one with space when there is
\* one, and of those one taught by a preferred instructor when there is one.
C28_SelectorPrefersSpaceThenInstructor ==
    \A code \in PathwayCourses :
       LET sel == offered_this_term(code, sem_label)
           matching == MatchingOfferings(code, sem_label)
           spacious == {i \in matching : Spacious(offerings[i])}
           preferred == {i \in spacious :
                           offerings[i].instructor \in pref_instructors}
       IN  /\ (sel = 0) <=> \/ matching = {}
                            \/ spacious = {} /\ ~inp.allow_overfull
           /\ sel # 0 => /\ sel \in matching
                         /\ spacious # {} => sel \in spacious
                         /\ preferred # {} => sel \in preferred

\* C28 witness: the first term of a plan lists C in the section of a
\* preferred instructor although a section of C with space comes before it,
\* and A in its recurring section because the section of the year is full.
C28_LaterPreferredSectionListed ==
    /\ Len(plan) >= 1
    /\ plan[1].semester = StartSemester
    /\ \E k, l \in 1..Len(plan[1].courses) :
          LET c == plan[1].courses[k]
              a == plan[1].courses[l]
          IN  /\ c.course_code = "C"
              /\ offerings[c.offering.id].instructor \in pref_instructors
              /\ \E i \in MatchingOfferings("C", StartSemester) :
                    /\ i < c.offering.id
                    /\ Spacious(offerings[i])
                    /\ offerings[i].instructor \notin pref_instructors
              /\ a.course_code = "A"
              /\ \E i \in MatchingOfferings("A", StartSemester) :
                    /\ i < a.offering.id
                    /\ ~Spacious(offerings[i])

----------------------------------------------------------------------------
(* Properties of the exact planner *)

\* C2: in a plan returned by the exact planner, each prerequisite of a course
\* listed at term index t, taken by itself and whether or not it belongs to
\* the pathway, is in the completed set or is listed at a term index below t.
C2_EachPrereqCompletedOrEarlier ==
    Returned =>
      \A i \in 1..Len(plan) :
        \A c \in CodesOf(plan[i].courses) :
          \A p \in inp.prereq_map[c] :
             p \in inp.completed \/ p \in ListedBefore(i)

\* The pathway courses the request has not completed.
RemainingCourses == PathwayCourses \ inp.completed

\* The ways to give every remaining course a term index below max_terms at
\* which it is available, each prerequisite completed or placed earlier, and
\* no term over the credit cap.
CompleteAssignments ==
    {f \in [RemainingCourses -> 0..(inp.max_terms - 1)] :
        /\ \A c \in RemainingCourses : availability(c, f[c])
        /\ \A c \in RemainingCourses :
              \A p \in inp.prereq_map[c] :
                  \/ p \in inp.completed
                  \/ p \in RemainingCourses /\ f[p] < f[c]
        /\ \A tt \in 0..(inp.max_terms - 1) :
              SumOver({c \in RemainingCourses : f[c] = tt}, inp.credits)
                  <= inp.max_credits_per_semester}

\* C23: when some assignment places every remaining course in a term below
\* max_terms within availability, prerequisite order and the credit cap, the
\* plan the exact planner returns at solver status OPTIMAL lists every
\* remaining course.
C23_OptimalPlacesEveryCourse ==
    (/\ Returned
     /\ solution # <<>>
     /\ solution.status = "OPTIMAL"
     /\ CompleteAssignments # {})
    => RemainingCourses \subseteq ListedBefore(Len(plan) + 1)

\* C24: in the exact planner's constraint model a remaining course whose
\* prerequisites are all in the completed set may be assigned to any term in
\* which it is available, term index 0 included: the prerequisite
\* constraints do not force its x[c, t] to 0.
C24_CompletedPrereqsLeaveCourseFree ==
    ppc = "exact" =>
        \A c \in RemainingCourses :
            inp.prereq_map[c] \subseteq inp.completed =>
                \A tt \in TermIndices :
                    availability(c, tt) =>
                        /\ <<c, tt>> \in XVars
                        /\ PrereqConstraints({<<c, tt>>}, XVars)

----------------------------------------------------------------------------
(* Properties of the scorer *)

\* The k-th call has been made and returned a result.
ScoreReturned(k) == k <= Len(score_res) /\ score_res[k].error = ""

\* Minutes since midnight of a clock string.
MinuteOfDay(t) == Val(t)[1] * 60 + Val(t)[2]

\* Do two courses conflict: different ids, the same semester when both have
\* one, days and times present on both, a shared day letter, and half-open
\* meeting intervals that overlap.
ConflictingPair(c1, c2) ==
    /\ c1.id # c2.id
    /\ (c1.semester # None /\ c2.semester # None) => c1.semester = c2.semester
    /\ \A c \in {c1, c2} :
          c.days_of_week # None /\ c.start_time # None /\ c.end_time # None
    /\ \E d \in DayLetters :
          /\ \E i \in 1..Len(Val(c1.days_of_week)) :
                Upper(Val(c1.days_of_week)[i]) = d
          /\ \E i \in 1..Len(Val(c2.days_of_week)) :
                Upper(Val(c2.days_of_week)[i]) = d
    /\ MinuteOfDay(c1.start_time) < MinuteOfDay(c2.end_time)
    /\ MinuteOfDay(c2.start_time) < MinuteOfDay(c1.end_time)

ConflictingPairs(courses) ==
    Cardinality({p \in SUBSET (1..Len(courses)) :
                    /\ Cardinality(p) = 2
                    /\ \E i \in p : \E j \in p :
                          i < j /\ ConflictingPair(courses[i], courses[j])})

\* C16: every score_courses call reports conflict_count equal to the number
\* of unordered pairs of courses with different ids, in the same semester
\* when both have one, with complete schedule data, a shared day letter and
\* overlapping half-open times; and the score is lowered by conflict_count
\* times 1000: without preferences it is base - 1000 per conflict - 0.5 per
\* gap minute - 75 per distinct day + the compactness bonus.
C16_ConflictCountAndPenalty ==
    \A k \in 1..Len(score_res) :
        /\ ScoreReturned(k)
        /\ LET courses == score_req.schedules[k]
               out == Val(score_res[k].value)
           IN  /\ out.conflict_count = ConflictingPairs(courses)
               /\ score_req.preferences = None =>
                     out.score = 500 * Tenths
                                 - ConflictingPairs(courses) * 1000 * Tenths
                                 - out.total_gaps_minutes * 5
                                 - out.distinct_days * 75 * Tenths
                                 + out.compactness_bonus

\* Both calls of a request of two one-course schedules have been made.
BothScored ==
    /\ score_req # <<>>
    /\ Len(score_req.schedules) = 2
    /\ Len(score_res) = 2

\* The request's preferences set the named field and no other.
OnlyEarliestStart ==
    /\ score_req.preferences # None
    /\ Val(score_req.preferences).earliest_start_time # None
    /\ Val(score_req.preferences) =
          [NoPreferences EXCEPT !.earliest_start_time =
                                   Val(score_req.preferences).earliest_start_time]

\* The first schedule's course starts before earliest_start_time, the
\* second's, on the same days, at or after it.
EarlyThenInWindow ==
    LET early == score_req.schedules[1][1]
        ok == score_req.schedules[2][1]
        bound == Val(score_req.preferences).earliest_start_time
    IN  /\ early.start_time # None
        /\ ok.start_time # None
        /\ early.days_of_week = ok.days_of_week
        /\ MinuteOfDay(early.start_time) < MinuteOfDay(bound)
        /\ MinuteOfDay(ok.start_time) >= MinuteOfDay(bound)

\* C17: with preferences that set only earliest_start_time, a one-course
\* schedule starting before it scores strictly lower than a one-course
\* schedule on the same days starting at or after it.
C17_EarlyStartScoresLower ==
    (BothScored /\ OnlyEarliestStart /\ EarlyThenInWindow) =>
        /\ ScoreReturned(1)
        /\ ScoreReturned(2)
        /\ Val(score_res[1].value).score < Val(score_res[2].value).score

OnlyAvoidMornings ==
    /\ score_req.preferences # None
    /\ Val(score_req.preferences) = [NoPreferences EXCEPT !.avoid_mornings = TRUE]

\* The two schedules differ in meeting time only: the first starts before
\* 10:00, the second at or after 10:00, and both end before 18:00.
MorningThenLater ==
    LET morning == score_req.schedules[1][1]
        later == score_req.schedules[2][1]
    IN  /\ morning.start_time # None
        /\ later.start_time # None
        /\ later = [morning EXCEPT !.start_time = later.start_time,
                                   !.end_time = later.end_time]
        /\ MinuteOfDay(morning.start_time) < 10 * 60
        /\ MinuteOfDay(later.start_time) >= 10 * 60
        /\ MinuteOfDay(morning.end_time) < 18 * 60
        /\ MinuteOfDay(later.end_time) < 18 * 60

\* C18: with preferences {avoid_mornings: true}, of two one-course schedules
\* that differ in meeting time only, one starting before 10:00 and the other
\* at or after 10:00, both ending before 18:00, the later one scores exactly
\* avoid_morning_penalty = 150 more.
C18_MorningCostsExactly150 ==
    (BothScored /\ OnlyAvoidMornings /\ MorningThenLater) =>
        /\ ScoreReturned(1)
        /\ ScoreReturned(2)
        /\ Val(score_res[2].value).score - Val(score_res[1].value).score
              = 150 * Tenths

\* The orders a list of n courses can be given in.
Reorderings(n) ==
    {f \in [1..n -> 1..n] : \A i \in 1..n : \E j \in 1..n : f[j] = i}

\* C30: every score_courses call returns a result, and the call on any
\* reordering of the same courses under the same preferences returns the
\* same score, conflict_count and total_gaps_minutes, also when two courses
\* on a day start at the same time.
C30_ScoreSameInAnyOrder ==
    \A k \in 1..Len(score_res) :
        /\ ScoreReturned(k)
        /\ LET courses == score_req.schedules[k]
               out == Val(score_res[k].value)
           IN  \A f \in Reorderings(Len(courses)) :
                  LET again == score_courses([i \in 1..Len(courses) |-> courses[f[i]]],
                                             score_req.preferences)
                  IN  /\ again.error = ""
                      /\ Val(again.value).score = out.score
                      /\ Val(again.value).conflict_count = out.conflict_count
                      /\ Val(again.value).total_gaps_minutes = out.total_gaps_minutes

----------------------------------------------------------------------------
(* Properties of the term successors *)

IsCanonical(label) == label.term \in {"Fall", "Spring", "Summer"}

\* The label each implementation was applied to at step k.
AdvancedFrom(k) ==
    IF k = 1 THEN [pathway |-> fn_arg, global |-> fn_arg, controller |-> fn_arg]
    ELSE fn_ret[k - 1]

\* C19: started from a canonical label, _next_semester_label, _next_sem_label
\* and _advance_label return at every step the same label, the canonical
\* successor (Fall Y -> Spring Y+1, Spring Y -> Summer Y, Summer Y -> Fall Y)
\* of the label they were given; and three steps from "Fall Y" give
\* "Fall Y+1".
C19_SuccessorsAgree ==
    IsCanonical(fn_arg) =>
        /\ \A k \in 1..Len(fn_ret) :
              /\ fn_ret[k].pathway = CanonicalSuccessor(AdvancedFrom(k).pathway)
              /\ fn_ret[k].global = fn_ret[k].pathway
              /\ fn_ret[k].controller = fn_ret[k].pathway
        /\ (Len(fn_ret) = 3 /\ fn_arg.term = "Fall") =>
              \A f \in {"pathway", "global", "controller"} :
                  fn_ret[3][f] = [term |-> "Fall", year |-> fn_arg.year + 1]

\* C19 witness: three steps from "Fall 2025" have been taken and
\* _advance_label stands at "Fall 2026".
C19_ThreeStepsFromFall ==
    /\ fn_arg = [term |-> "Fall", year |-> 2025]
    /\ Len(fn_ret) = 3
    /\ fn_ret[1].controller = [term |-> "Spring", year |-> 2026]
    /\ fn_ret[3].controller = [term |-> "Fall", year |-> 2026]

----------------------------------------------------------------------------
(* Properties of parse_days *)

\* C20: day-string normalization is idempotent, normalize(normalize(s)) =
\* normalize(s) for every string over the day letters, and insensitive to
\* order: normalize("TR") = normalize("RT") = {T, R}.
C20_NormalizeIdempotentAnyOrder ==
    /\ Len(fn_ret) = 2 => fn_ret[2] = fn_ret[1]
    /\ (Len(fn_ret) >= 1 /\ fn_arg \in {<<"T", "R">>, <<"R", "T">>}) =>
          fn_ret[1] = {"T", "R"}

----------------------------------------------------------------------------
(* Properties of the planners together *)

\* C29: in a plan returned by the greedy, the load-balancing or the exact
\* planner each course code is listed in at most one term entry and at most
\* once in it, and no course of the request's completed set is listed.
C29_EachCourseOnceNoneCompleted ==
    Returned =>
      /\ \A i \in 1..Len(plan) :
            /\ Cardinality(CodesOf(plan[i].courses)) = Len(plan[i].courses)
            /\ CodesOf(plan[i].courses) \cap inp.completed = {}
            /\ \A j \in 1..Len(plan) :
                  i # j => CodesOf(plan[i].courses) \cap CodesOf(plan[j].courses) = {}

\* C29 witness: with A completed, a returned plan lists B and C, the courses
\* left, in two term entries.
C29_RestPlacedInTwoTerms ==
    /\ Returned
    /\ "A" \in inp.completed
    /\ \E i, j \in 1..Len(plan) :
          /\ i < j
          /\ "B" \in CodesOf(plan[i].courses)
          /\ "C" \in CodesOf(plan[j].courses)

\* C27: on every input on which the greedy call left no course remaining
\* within max_terms, the load-balancing call on the same input returns with
\* every pathway course scheduled.
C27_BalancedCompleteWhenGreedyIs ==
    (Returned /\ inp.balance_load /\ remaining = {})
    => PathwayCourses \subseteq scheduled

\* C22: a planner call with max_terms = 0, greedy, load-balancing or exact,
\* returns the empty plan: no term entries.
C22_NoTermsNoPlan ==
    (Returned /\ inp.max_terms = 0) => plan = <<>>

====
